---- MODULE Spec2Model ----
(***************************************************************************)
(* Model of the chat server (src/serverRPC.py) and of the request          *)
(* generators of its client (src/clientRPC.py).                            *)
(*                                                                         *)
(* Strings are sequences of one-character strings, so that strip(),        *)
(* lower(), startswith() and split() are computed as Python computes them. *)
(* The relational store is two tables: users (a set of rows, username is   *)
(* the key) and messages (a set of rows, messageid is the auto-increment   *)
(* key).  Every streaming call is a generator: its state is the position   *)
(* at which the generator is suspended plus its local variables.           *)
(***************************************************************************)
EXTENDS Integers, Sequences, FiniteSets, TLC

VARIABLES
    users,      \* table users: set of rows [username, password, active]
    messages,   \* table messages: set of rows [messageid, receiver, sender, message, isread]
    nextId,     \* the auto-increment counter of messages.messageid
    calls,      \* the streaming calls: call slot -> generator state
    resp,       \* the response of the last unary call
    gui,        \* the client's bidirectional session (clientRPC.py)
    wire,       \* the requests the client's generator has yielded, not yet consumed
    used        \* whether the SendMessage call has run, how many other unary calls have

vars == <<users, messages, nextId, calls, resp, gui, wire, used>>

----------------------------------------------------------------------------
(* Bounds of the model *)

\* largest number of unread messages the store holds initially
MaxInit == 6
\* number of client turns one CheckMessages call consumes
MaxTurns == 4
\* number of unary operations other than SendMessage during a behaviour
MaxOps == 2

\* the streaming call slots (each runs one call)
Calls == {1, 2}

----------------------------------------------------------------------------
(* Strings *)

a == <<"a">>
b == <<"b">>
c3 == <<"c">>
Empty == <<>>
yes == <<"y", "e", "s">>
YES == <<"Y", "E", "S">>
no == <<"n", "o">>
one == <<"1">>
two == <<"2">>
hi == <<"h", "i">>
Pw == <<"A", "b", "c", "d", "e", "1", "!">>

RECURSIVE LStrip(_)
LStrip(s) == IF s # <<>> /\ Head(s) = " " THEN LStrip(Tail(s)) ELSE s

RECURSIVE RStrip(_)
RStrip(s) ==
    IF s # <<>> /\ s[Len(s)] = " " THEN RStrip(SubSeq(s, 1, Len(s) - 1)) ELSE s

\* str.strip()
Strip(s) == RStrip(LStrip(s))

LowerChar(ch) ==
    CASE ch = "Y" -> "y"
      [] ch = "E" -> "e"
      [] ch = "S" -> "s"
      [] ch = "N" -> "n"
      [] ch = "O" -> "o"
      [] ch = "A" -> "a"
      [] ch = "B" -> "b"
      [] OTHER -> ch

\* str.lower()
Lower(s) == [i \in 1..Len(s) |-> LowerChar(s[i])]

\* str.startswith(ch) for a one-character prefix
StartsWith(s, ch) == s # <<>> /\ Head(s) = ch

\* index of the first ch in s, 0 when there is none
FirstIndex(s, ch) ==
    IF \E i \in 1..Len(s) : s[i] = ch
    THEN CHOOSE i \in 1..Len(s) : s[i] = ch /\ \A j \in 1..(i - 1) : s[j] # ch
    ELSE 0

\* str.split(ch, 1)
Split1(s, ch) ==
    LET i == FirstIndex(s, ch) IN
    IF i = 0 THEN <<s>>
    ELSE <<SubSeq(s, 1, i - 1), SubSeq(s, i + 1, Len(s))>>

----------------------------------------------------------------------------
(* The store *)

\* hashPass / bcrypt.checkpw: an opaque digest of the password
hashPass(password) == <<"bcrypt", password>>
checkpw(plain, stored) == stored = hashPass(plain)

UserRow(u, p, act) == [username |-> u, password |-> p, active |-> act]
MsgRow(id, r, s, body, rd) ==
    [messageid |-> id, receiver |-> r, sender |-> s, message |-> body, isread |-> rd]

\* SELECT COUNT(*) FROM users WHERE username=u  > 0
checkRealUsername(us, u) == \E row \in us : row.username = u

\* (mutant: the digest is not compared)
checkRealPasswordAnyPlain(us, u, plain) == \E row \in us : row.username = u

\* SELECT password FROM users WHERE username=u ; bcrypt.checkpw
checkRealPassword(us, u, plain) ==
    \E row \in us : row.username = u /\ checkpw(plain, row.password)

\* (mutant: the isread condition is missing)
UnreadCountAnyFlag(ms, u) == Cardinality({m \in ms : m.receiver = u})

\* SELECT COUNT(*) FROM messages WHERE receiver=u AND isread=0
UnreadCount(ms, u) == Cardinality({m \in ms : m.receiver = u /\ m.isread = 0})

\* (mutant: the isread condition is missing in the aggregation)
SendersInfoAnyFlag(ms, u) ==
    LET rows == {m \in ms : m.receiver = u} IN
    {<<s, Cardinality({m \in rows : m.sender = s})>> : s \in {m.sender : m \in rows}}

\* SELECT sender, COUNT(*) FROM messages WHERE receiver=u AND isread=0 GROUP BY sender
\* (the order of the groups is not fixed by the query: a set of <<sender, num>>)
SendersInfo(ms, u) ==
    LET unread == {m \in ms : m.receiver = u /\ m.isread = 0} IN
    {<<s, Cardinality({m \in unread : m.sender = s})>> : s \in {m.sender : m \in unread}}

\* the rows of a set in ascending messageid order (ORDER BY messageid)
RECURSIVE OrderByMessageid(_)
OrderByMessageid(rows) ==
    IF rows = {} THEN <<>>
    ELSE LET first == CHOOSE m \in rows : \A o \in rows : m.messageid <= o.messageid
         IN <<first>> \o OrderByMessageid(rows \ {first})

\* (mutant: the isread condition is missing in the fetch)
FetchAnyFlag(ms, u, s) ==
    OrderByMessageid({m \in ms : m.receiver = u /\ m.sender = s})

\* SELECT ... FROM messages WHERE receiver=u AND sender=s AND isread=0 ORDER BY messageid
FetchUnread(ms, u, s) ==
    OrderByMessageid({m \in ms : m.receiver = u /\ m.sender = s /\ m.isread = 0})

\* (mutant: SET isread = 1 - isread)
MarkReadToggle(ms, ids) ==
    {IF m.messageid \in ids THEN [m EXCEPT !.isread = 1 - @] ELSE m : m \in ms}

\* (mutant: only the first id of the list is marked)
MarkReadFirstOnly(ms, ids) ==
    {IF m.messageid \in ids /\ \A i \in ids : m.messageid <= i
     THEN [m EXCEPT !.isread = 1] ELSE m : m \in ms}

\* UPDATE messages SET isread=1 WHERE messageid IN (ids)
MarkRead(ms, ids) ==
    {IF m.messageid \in ids THEN [m EXCEPT !.isread = 1] ELSE m : m \in ms}

\* (mutant: ORDER BY messageid ASC)
FirstUnreadSent(ms, u) ==
    LET sent == {m \in ms : m.sender = u /\ m.isread = 0} IN
    {m \in sent : \A o \in sent : o.messageid >= m.messageid}

\* (mutant: the sender condition is missing)
LastUnreadOfAnySender(ms, u) ==
    LET sent == {m \in ms : m.isread = 0} IN
    {m \in sent : \A o \in sent : o.messageid <= m.messageid}

\* SELECT messageid FROM messages WHERE sender=u AND isread=0
\* ORDER BY messageid DESC LIMIT 1   (the set is empty when there is no row)
LastUnreadSent(ms, u) ==
    LET sent == {m \in ms : m.sender = u /\ m.isread = 0} IN
    {m \in sent : \A o \in sent : o.messageid <= m.messageid}

\* DELETE FROM messages WHERE messageid=id
DeleteById(ms, id) == {m \in ms : m.messageid # id}

\* (mutant: the received messages are deleted too)
DeleteSentOrReceivedBy(ms, u) == {m \in ms : m.sender # u /\ m.receiver # u}

\* DELETE FROM messages WHERE sender=u
DeleteSentBy(ms, u) == {m \in ms : m.sender # u}

\* (mutant: the row is kept and only flagged inactive)
DeleteUserKeepsRow(us, u) ==
    {IF row.username = u THEN [row EXCEPT !.active = 0] ELSE row : row \in us}

\* DELETE FROM users WHERE username=u
DeleteUser(us, u) == {row \in us : row.username # u}

\* (mutant: SET active = 1 - active)
SetActiveToggle(us, u, act) ==
    {IF row.username = u THEN [row EXCEPT !.active = 1 - @] ELSE row : row \in us}

\* UPDATE users SET active=act WHERE username=u
SetActive(us, u, act) ==
    {IF row.username = u THEN [row EXCEPT !.active = act] ELSE row : row \in us}

----------------------------------------------------------------------------
(* Server turns, client turns and the generator state of a streaming call *)

\* rows per batch in CheckMessages (batch_size)
batch_size == 5

\* a server turn (a yielded response); id is the messageid of the row a
\* delivery turn was formatted from
Turn(cmd, text, n, info, row) ==
    [dir |-> "out", command |-> cmd, server_message |-> text, n |-> n, info |-> info,
     sender |-> row.sender, message_body |-> row.message, id |-> row.messageid]

NoRow == MsgRow(0, <<>>, <<>>, <<>>, 0)
Say(cmd, text) == Turn(cmd, text, 0, {}, NoRow)

\* a consumed client turn
In(req) == [dir |-> "in", req |-> req]

NoUsername == Say("checkmessages", "No username provided. Aborting.")
ZeroUnread == Say("checkmessages", "You have 0 unread messages.")
UnreadPrompt(n) ==
    Turn("checkmessages",
         "You have N unread messages. Type '1' to read them, or '2' to skip.", n, {}, NoRow)
Skipping == Say("checkmessages", "Skipping reading messages.")
NoUnreadFound == Say("checkmessages", "No unread messages found.")
UnreadFrom(info) ==
    Turn("checkmessages",
         "Unread from: SENDERS. Type the sender's name to read those messages.", 0, info, NoRow)
InvalidChoice == Say("checkmessages", "Invalid choice. Please type '1' or '2'.")
ValidSender == Say("checkmessages", "Please provide a valid sender name.")
NoUnreadFrom(s) ==
    Turn("checkmessages", "No unread messages from SENDER.", 0, {},
         MsgRow(0, <<>>, s, <<>>, 0))
Delivery(m) == Turn("checkmessages", "TS SENDER: MESSAGE", 0, {}, m)
BatchMarked == Say("checkmessages", "(This batch marked as read.)")
DoneReading == Say("checkmessages", "Done reading messages from this sender.")
ErrorTurn(cmd) == Say(cmd, "Error: ")

DeletePrompt ==
    Say("delete", "Are you sure you want to delete your last unread message? (yes/no)")
NothingToDelete == Say("delete", "No unread messages to delete.")
Deleted == Say("delete", "Your last unread message was deleted.")
DeleteCanceled == Say("delete", "Delete canceled.")
DeactivatePrompt ==
    Say("deactivate", "Are you sure you want to deactivate your account? (yes/no)")
Removed == Say("deactivate", "Your account and sent messages are removed.")
DeactivateCanceled == Say("deactivate", "Deactivation canceled.")

\* the state of one streaming call: where its generator is suspended (pc),
\* its locals (username, msgs, the start i of the current batch as marked,
\* the number of rows yielded as pos) and the turns consumed and yielded so far
IdleCall ==
    [kind |-> "none", pc |-> "idle", username |-> <<>>, msgs |-> <<>>,
     marked |-> 0, pos |-> 0, log |-> <<>>]

IsOut(e) == e.dir = "out"
IsIn(e) == e.dir = "in"
\* the server turns of a call, the client turns it consumed
OutOf(cl) == SelectSeq(cl.log, IsOut)
InOf(cl) == SelectSeq(cl.log, IsIn)
Out(c) == OutOf(calls[c])
NumIn(c) == Len(InOf(calls[c]))

\* the generator is blocked in `for req in request_iterator`
Waiting(c) == calls[c].pc \in {"stage0", "stage1", "stage2", "await"}
\* the generator is suspended at a yield inside the batch loop
Reading(c) == calls[c].pc = "reading"
Ended(c) == calls[c].pc \in {"done", "aborted"}

\* (mutant: the whole list is one batch)
BatchEndWholeList(cl) == Len(cl.msgs)

\* msgs[i:i+batch_size] ends at this index (the batch that starts after `marked`)
BatchEnd(cl) ==
    IF cl.marked + batch_size < Len(cl.msgs) THEN cl.marked + batch_size ELSE Len(cl.msgs)

----------------------------------------------------------------------------
(* ChatService.CheckMessages *)

Push(cl, events) == [cl EXCEPT !.log = @ \o events]

\* the call starts: the generator runs to `for req in request_iterator`
OpenCheck(c) ==
    /\ calls[c].pc = "idle"
    /\ \A d \in 1..(c - 1) : calls[d].pc # "idle"
    /\ calls' = [calls EXCEPT ![c] = [IdleCall EXCEPT !.kind = "check", !.pc = "stage0"]]
    /\ UNCHANGED <<users, messages, nextId>>

\* stage 0: the first request carries the username
CheckStage0(c, req) ==
    LET cl == calls[c]
        username == Strip(req.username)
        unread_count == UnreadCount(messages, username)
        got == [cl EXCEPT !.username = username]
    IN
    /\ cl.pc = "stage0"
    /\ calls' = [calls EXCEPT ![c] =
           IF username = <<>>
           THEN [Push(got, <<In(req), NoUsername>>) EXCEPT !.pc = "done"]
           ELSE IF unread_count = 0
           THEN [Push(got, <<In(req), ZeroUnread>>) EXCEPT !.pc = "done"]
           ELSE [Push(got, <<In(req), UnreadPrompt(unread_count)>>) EXCEPT !.pc = "stage1"]]
    /\ UNCHANGED <<users, messages, nextId>>

\* (mutant: an invalid choice ends the conversation, `break` for `continue`)
CheckStage1BreaksOnInvalid(c, req) ==
    LET cl == calls[c]
        choice == Strip(req.choice)
        senders_info == SendersInfo(messages, cl.username)
    IN
    /\ cl.pc = "stage1"
    /\ calls' = [calls EXCEPT ![c] =
           IF choice = two
           THEN [Push(cl, <<In(req), Skipping>>) EXCEPT !.pc = "done"]
           ELSE IF choice = one
           THEN IF senders_info = {}
                THEN [Push(cl, <<In(req), NoUnreadFound>>) EXCEPT !.pc = "done"]
                ELSE [Push(cl, <<In(req), UnreadFrom(senders_info)>>) EXCEPT !.pc = "stage2"]
           ELSE [Push(cl, <<In(req), InvalidChoice>>) EXCEPT !.pc = "done"]]
    /\ UNCHANGED <<users, messages, nextId>>

\* (mutant: skipping does not end the conversation, `continue` for `break`)
CheckStage1SkipContinues(c, req) ==
    LET cl == calls[c]
        choice == Strip(req.choice)
        senders_info == SendersInfo(messages, cl.username)
    IN
    /\ cl.pc = "stage1"
    /\ calls' = [calls EXCEPT ![c] =
           IF choice = two
           THEN Push(cl, <<In(req), Skipping>>)
           ELSE IF choice = one
           THEN IF senders_info = {}
                THEN [Push(cl, <<In(req), NoUnreadFound>>) EXCEPT !.pc = "done"]
                ELSE [Push(cl, <<In(req), UnreadFrom(senders_info)>>) EXCEPT !.pc = "stage2"]
           ELSE Push(cl, <<In(req), InvalidChoice>>)]
    /\ UNCHANGED <<users, messages, nextId>>

\* stage 1: read ("1") or skip ("2")
CheckStage1(c, req) ==
    LET cl == calls[c]
        choice == Strip(req.choice)
        senders_info == SendersInfo(messages, cl.username)
    IN
    /\ cl.pc = "stage1"
    /\ calls' = [calls EXCEPT ![c] =
           IF choice = two
           THEN [Push(cl, <<In(req), Skipping>>) EXCEPT !.pc = "done"]
           ELSE IF choice = one
           THEN IF senders_info = {}
                THEN [Push(cl, <<In(req), NoUnreadFound>>) EXCEPT !.pc = "done"]
                ELSE [Push(cl, <<In(req), UnreadFrom(senders_info)>>) EXCEPT !.pc = "stage2"]
           ELSE Push(cl, <<In(req), InvalidChoice>>)]
    /\ UNCHANGED <<users, messages, nextId>>

\* (mutant: the username is read again from the stage-2 request)
CheckStage2RebindsUser(c, req) ==
    LET cl == calls[c]
        chosen_sender == Strip(req.sender)
        msgs == FetchUnread(messages, Strip(req.username), chosen_sender)
    IN
    /\ cl.pc = "stage2"
    /\ calls' = [calls EXCEPT ![c] =
           IF chosen_sender = <<>>
           THEN Push(cl, <<In(req), ValidSender>>)
           ELSE IF msgs = <<>>
           THEN [Push(cl, <<In(req), NoUnreadFrom(chosen_sender)>>) EXCEPT !.pc = "done"]
           ELSE [Push(cl, <<In(req), Delivery(msgs[1])>>) EXCEPT
                    !.pc = "reading", !.msgs = msgs, !.marked = 0, !.pos = 1]]
    /\ UNCHANGED <<users, messages, nextId>>

\* stage 2: the sender to read; the rows are fetched and the first one is yielded
CheckStage2(c, req) ==
    LET cl == calls[c]
        chosen_sender == Strip(req.sender)
        msgs == FetchUnread(messages, cl.username, chosen_sender)
    IN
    /\ cl.pc = "stage2"
    /\ calls' = [calls EXCEPT ![c] =
           IF chosen_sender = <<>>
           THEN Push(cl, <<In(req), ValidSender>>)
           ELSE IF msgs = <<>>
           THEN [Push(cl, <<In(req), NoUnreadFrom(chosen_sender)>>) EXCEPT !.pc = "done"]
           ELSE [Push(cl, <<In(req), Delivery(msgs[1])>>) EXCEPT
                    !.pc = "reading", !.msgs = msgs, !.marked = 0, !.pos = 1]]
    /\ UNCHANGED <<users, messages, nextId>>

\* the generator is resumed inside a batch: the next row of the batch is yielded
Deliver(c) ==
    LET cl == calls[c] IN
    /\ cl.pc = "reading"
    /\ cl.pos < BatchEnd(cl)
    /\ calls' = [calls EXCEPT ![c] =
           [Push(cl, <<Delivery(cl.msgs[cl.pos + 1])>>) EXCEPT !.pos = cl.pos + 1]]
    /\ UNCHANGED <<users, messages, nextId>>

\* (mutant: the ids of every fetched row)
BatchIdsOfAllRows(cl) == {cl.msgs[i].messageid : i \in 1..Len(cl.msgs)}

\* the ids of the batch msgs[i:i+batch_size]
BatchIds(cl) == {cl.msgs[i].messageid : i \in (cl.marked + 1)..BatchEnd(cl)}

\* (mutant: UPDATE ... WHERE receiver=username AND sender=chosen_sender)
MarkBatchBySender(c) ==
    LET cl == calls[c] IN
    /\ cl.pc = "reading"
    /\ cl.marked < cl.pos
    /\ cl.pos = BatchEnd(cl)
    /\ messages' = {IF m.receiver = cl.username /\ m.sender = cl.msgs[1].sender
                    THEN [m EXCEPT !.isread = 1] ELSE m : m \in messages}
    /\ calls' = [calls EXCEPT ![c] =
           [Push(cl, <<BatchMarked>>) EXCEPT !.marked = BatchEnd(cl)]]
    /\ UNCHANGED <<users, nextId>>

\* the generator is resumed after the last row of a batch: the batch is marked
\* read (UPDATE, commit) and the confirmation is yielded
MarkBatch(c) ==
    LET cl == calls[c] IN
    /\ cl.pc = "reading"
    /\ cl.marked < cl.pos
    /\ cl.pos = BatchEnd(cl)
    /\ messages' = MarkRead(messages, BatchIds(cl))
    /\ calls' = [calls EXCEPT ![c] =
           [Push(cl, <<BatchMarked>>) EXCEPT !.marked = BatchEnd(cl)]]
    /\ UNCHANGED <<users, nextId>>

\* (mutant: no `break` after the final turn, the loop waits for another request)
FinishReadingNoBreak(c) ==
    LET cl == calls[c] IN
    /\ cl.pc = "reading"
    /\ cl.marked = Len(cl.msgs)
    /\ calls' = [calls EXCEPT ![c] =
           [Push(cl, <<DoneReading>>) EXCEPT !.pc = "stage2", !.msgs = <<>>,
                                              !.marked = 0, !.pos = 0]]
    /\ UNCHANGED <<users, messages, nextId>>

\* the generator is resumed after the last batch: the final turn, then break
FinishReading(c) ==
    LET cl == calls[c] IN
    /\ cl.pc = "reading"
    /\ cl.marked = Len(cl.msgs)
    /\ calls' = [calls EXCEPT ![c] = [Push(cl, <<DoneReading>>) EXCEPT !.pc = "done"]]
    /\ UNCHANGED <<users, messages, nextId>>

----------------------------------------------------------------------------
(* ChatService.DeleteLastMessage and ChatService.DeactivateAccount *)

\* (mutant: any answer that starts with "y" confirms)
ConfirmedByPrefix(confirm) == StartsWith(confirm, "y")

\* if confirm == 'yes'
Confirmed(confirm) == confirm = yes

\* (mutant: the prompt is not yielded)
OpenDeleteNoPrompt(c) ==
    /\ calls[c].pc = "idle"
    /\ \A d \in 1..(c - 1) : calls[d].pc # "idle"
    /\ calls' = [calls EXCEPT ![c] = [IdleCall EXCEPT !.kind = "delete", !.pc = "await"]]
    /\ UNCHANGED <<users, messages, nextId>>

\* the call starts: the prompt is yielded before any request is read
OpenDelete(c) ==
    /\ calls[c].pc = "idle"
    /\ \A d \in 1..(c - 1) : calls[d].pc # "idle"
    /\ calls' = [calls EXCEPT ![c] =
           [IdleCall EXCEPT !.kind = "delete", !.pc = "await", !.log = <<DeletePrompt>>]]
    /\ UNCHANGED <<users, messages, nextId>>

\* the first request: the confirmation decides
DeleteTurn(c, req) ==
    LET cl == calls[c]
        username == Strip(req.username)
        confirm == Lower(Strip(req.confirmation))
        row == LastUnreadSent(messages, username)
        got == [cl EXCEPT !.username = username]
    IN
    /\ cl.kind = "delete"
    /\ cl.pc = "await"
    /\ IF Confirmed(confirm)
       THEN IF row = {}
            THEN /\ calls' = [calls EXCEPT ![c] =
                        [Push(got, <<In(req), NothingToDelete>>) EXCEPT !.pc = "done"]]
                 /\ messages' = messages
            ELSE /\ calls' = [calls EXCEPT ![c] =
                        [Push(got, <<In(req), Deleted>>) EXCEPT !.pc = "done"]]
                 /\ messages' = DeleteById(messages, (CHOOSE m \in row : TRUE).messageid)
       ELSE /\ calls' = [calls EXCEPT ![c] =
                   [Push(got, <<In(req), DeleteCanceled>>) EXCEPT !.pc = "done"]]
            /\ messages' = messages
    /\ UNCHANGED <<users, nextId>>

OpenDeactivate(c) ==
    /\ calls[c].pc = "idle"
    /\ \A d \in 1..(c - 1) : calls[d].pc # "idle"
    /\ calls' = [calls EXCEPT ![c] =
           [IdleCall EXCEPT !.kind = "deactivate", !.pc = "await",
                            !.log = <<DeactivatePrompt>>]]
    /\ UNCHANGED <<users, messages, nextId>>

DeactivateTurn(c, req) ==
    LET cl == calls[c]
        username == Strip(req.username)
        confirmation == Lower(Strip(req.confirmation))
        got == [cl EXCEPT !.username = username]
    IN
    /\ cl.kind = "deactivate"
    /\ cl.pc = "await"
    /\ IF Confirmed(confirmation)
       THEN /\ messages' = DeleteSentBy(messages, username)
            /\ users' = DeleteUser(users, username)
            /\ calls' = [calls EXCEPT ![c] =
                   [Push(got, <<In(req), Removed>>) EXCEPT !.pc = "done"]]
       ELSE /\ calls' = [calls EXCEPT ![c] =
                   [Push(got, <<In(req), DeactivateCanceled>>) EXCEPT !.pc = "done"]]
            /\ UNCHANGED <<users, messages>>
    /\ UNCHANGED nextId

----------------------------------------------------------------------------
(* How a streaming call ends without a client turn *)

Command(cl) ==
    CASE cl.kind = "check" -> "checkmessages"
      [] cl.kind = "delete" -> "delete"
      [] OTHER -> "deactivate"

\* the client half-closes its request stream: request_iterator is exhausted,
\* the for loop ends and the generator returns
CloseStream(c) ==
    /\ Waiting(c)
    /\ calls' = [calls EXCEPT ![c].pc = "done"]
    /\ UNCHANGED <<users, messages, nextId>>

\* the client cancels the call while the handler waits for a request:
\* request_iterator raises, `except Exception` yields the error turn
CancelWaiting(c) ==
    /\ Waiting(c)
    /\ calls' = [calls EXCEPT ![c] =
           [Push(calls[c], <<ErrorTurn(Command(calls[c]))>>) EXCEPT !.pc = "done"]]
    /\ UNCHANGED <<users, messages, nextId>>

\* the call stops where the generator is suspended at a yield (the client is
\* gone and the generator is closed) or the worker dies: nothing more runs
Abort(c) ==
    /\ calls[c].pc \in {"stage0", "stage1", "stage2", "await", "reading"}
    /\ calls' = [calls EXCEPT ![c].pc = "aborted"]
    /\ UNCHANGED <<users, messages, nextId>>

----------------------------------------------------------------------------
(* The unary operations *)

Uppercase == {"A", "B", "E", "N", "O", "S", "Y"}
Digits == {"0", "1", "2", "3", "4", "5", "6", "7", "8", "9"}
Specials == {"_", "@", "$", "#", "!"}

\* minimum password length in checkValidPassword
MinPasswordLen == 7

\* (mutant: len(password) <= 7 is rejected)
checkValidPasswordOffByOne(password) ==
    IF Len(password) <= MinPasswordLen THEN FALSE
    ELSE LET has_upper == \E i \in 1..Len(password) : password[i] \in Uppercase
             has_digit == \E i \in 1..Len(password) : password[i] \in Digits
             has_special == \E i \in 1..Len(password) : password[i] \in Specials
         IN has_upper /\ has_digit /\ has_special

checkValidPassword(password) ==
    IF Len(password) < MinPasswordLen THEN FALSE
    ELSE LET has_upper == \E i \in 1..Len(password) : password[i] \in Uppercase
             has_digit == \E i \in 1..Len(password) : password[i] \in Digits
             has_special == \E i \in 1..Len(password) : password[i] \in Specials
         IN has_upper /\ has_digit /\ has_special

\* a unary response: chat_pb2.Response, SendMessageResponse or SearchResponse
\* (op and req record the call the response answers)
Response(op, req, cmd, ok, text, names) ==
    [op |-> op, req |-> req, command |-> cmd, success |-> ok, server_message |-> text,
     usernames |-> names]

NoResponse == Response("none", <<>>, "", FALSE, "", {})

\* (mutant: the confirmation is compared before the policy is checked)
RegisterResponseMismatchFirst(us, req) ==
    LET reg_username == Strip(req.username)
        reg_password == Strip(req.password)
        confirm_password == Strip(req.confirm_password)
    IN
    IF reg_username = <<>> \/ reg_password = <<>> \/ confirm_password = <<>>
    THEN "Registration canceled: All fields are required."
    ELSE IF checkRealUsername(us, reg_username)
    THEN "Username taken. Please choose another."
    ELSE IF reg_password # confirm_password
    THEN "Passwords do not match."
    ELSE IF ~checkValidPassword(reg_password)
    THEN "Invalid password: Must be >=7 chars, include uppercase, digit, and special char."
    ELSE "Registration successful. You are now logged in!"

RegisterResponse(us, req) ==
    LET reg_username == Strip(req.username)
        reg_password == Strip(req.password)
        confirm_password == Strip(req.confirm_password)
    IN
    IF reg_username = <<>> \/ reg_password = <<>> \/ confirm_password = <<>>
    THEN "Registration canceled: All fields are required."
    ELSE IF checkRealUsername(us, reg_username)
    THEN "Username taken. Please choose another."
    ELSE IF ~checkValidPassword(reg_password)
    THEN "Invalid password: Must be >=7 chars, include uppercase, digit, and special char."
    ELSE IF reg_password # confirm_password
    THEN "Passwords do not match."
    ELSE "Registration successful. You are now logged in!"

Register(req) ==
    LET text == RegisterResponse(users, req) IN
    /\ used.ops < MaxOps
    /\ users' = IF text = "Registration successful. You are now logged in!"
                THEN users \cup {UserRow(Strip(req.username),
                                         hashPass(Strip(req.password)), 1)}
                ELSE users
    /\ resp' = Response("Register", req, "1", FALSE, text, {})
    /\ used' = [used EXCEPT !.ops = @ + 1]
    /\ UNCHANGED <<messages, nextId, calls, gui, wire>>

LoginResponse(us, req) ==
    LET username == Strip(req.username)
        password == Strip(req.password)
    IN
    IF ~checkRealUsername(us, username) THEN "User not found."
    ELSE IF ~checkRealPassword(us, username, password) THEN "Incorrect password."
    ELSE "Welcome, USERNAME!"

Login(req) ==
    LET text == LoginResponse(users, req) IN
    /\ used.ops < MaxOps
    /\ users' = IF text = "Welcome, USERNAME!"
                THEN SetActive(users, Strip(req.username), 1)
                ELSE users
    /\ resp' = Response("Login", req, "2", FALSE, text, {})
    /\ used' = [used EXCEPT !.ops = @ + 1]
    /\ UNCHANGED <<messages, nextId, calls, gui, wire>>

Logoff(req) ==
    LET username == Strip(req.username) IN
    /\ used.ops < MaxOps
    /\ IF username = <<>>
       THEN /\ resp' = Response("Logoff", req, "logoff", FALSE, "No username provided.", {})
            /\ users' = users
       ELSE /\ users' = SetActive(users, username, 0)
            /\ resp' = Response("Logoff", req, "logoff", FALSE,
                                "USERNAME has been logged off.", {})
    /\ used' = [used EXCEPT !.ops = @ + 1]
    /\ UNCHANGED <<messages, nextId, calls, gui, wire>>

\* (mutant: WHERE active=1)
SearchResultActiveOnly(us, username) ==
    {row.username : row \in {r \in us : r.active = 1}} \ {username}

\* the usernames SearchUsers returns to `username`
SearchResult(us, username) == {row.username : row \in us} \ {username}

SearchUsers(req) ==
    /\ used.ops < MaxOps
    /\ resp' = Response("SearchUsers", req, "", TRUE, "User list retrieved.",
                        SearchResult(users, Strip(req.username)))
    /\ used' = [used EXCEPT !.ops = @ + 1]
    /\ UNCHANGED <<users, messages, nextId, calls, gui, wire>>

unknown == <<"u", "n", "k", "n", "o", "w", "n">>

\* md.get("username", "unknown"): md is the set of values of the metadata key
MetadataUsername(md) == IF md = {} THEN unknown ELSE CHOOSE u \in md : TRUE

\* (mutant: the recipient is not looked up)
SendMessageResponseAnyRecipient(us, full_text) ==
    LET parts == Split1(full_text, " ") IN
    IF ~StartsWith(full_text, "@")
    THEN "Message must start with '@username' for a direct message."
    ELSE IF Len(parts) < 2
    THEN "Invalid format. Use '@username message'."
    ELSE ""

SendMessageResponse(us, full_text) ==
    LET parts == Split1(full_text, " ") IN
    IF ~StartsWith(full_text, "@")
    THEN "Message must start with '@username' for a direct message."
    ELSE IF Len(parts) < 2
    THEN "Invalid format. Use '@username message'."
    ELSE IF ~checkRealUsername(us, Tail(parts[1]))
    THEN "Recipient does not exist."
    ELSE ""

SendMessage(md, req) ==
    LET full_text == Strip(req.message)
        sender == MetadataUsername(md)
        text == SendMessageResponse(users, full_text)
        parts == Split1(full_text, " ")
    IN
    /\ ~used.sent
    /\ IF text = ""
       THEN /\ messages' = messages \cup {MsgRow(nextId, Tail(parts[1]), sender, parts[2], 0)}
            /\ nextId' = nextId + 1
       ELSE UNCHANGED <<messages, nextId>>
    /\ resp' = Response("SendMessage", [md |-> md, message |-> req.message], "", text = "", text, {})
    /\ used' = [used EXCEPT !.sent = TRUE]
    /\ UNCHANGED <<users, calls, gui, wire>>

----------------------------------------------------------------------------
(* The initial store and the inputs *)

\* the i-th row of the initial store: in pattern 1 every message is an unread
\* one from b to a; in pattern 2 the even ones are unread ones from a to b; in
\* pattern 3 the even ones are from b to b and have been read
InitRow(i, pat) ==
    IF i % 2 = 0 /\ pat = 2 THEN MsgRow(i, b, a, hi, 0)
    ELSE IF i % 2 = 0 /\ pat = 3 THEN MsgRow(i, b, b, hi, 1)
    ELSE MsgRow(i, a, b, hi, 0)

InitUsers == {UserRow(a, hashPass(Pw), 1), UserRow(b, hashPass(Pw), 1)}

\* the client: its user, the session it runs (active_bidi), where its request
\* generator stands (gen), its input queue, what the user typed during the session
\* (and how many server turns were on screen then), the server turns displayed
GuiIdle ==
    [username |-> a, active_bidi |-> "none", gen |-> "none", bidi_queue |-> <<>>,
     typed |-> <<>>, shown |-> 0]

\* the store as earlier calls left it
InitStore ==
    /\ users = InitUsers
    /\ \E n \in 0..MaxInit, pat \in {1, 2, 3} :
          /\ messages = {InitRow(i, pat) : i \in 1..n}
          /\ nextId = n + 1
    /\ calls = [c \in Calls |-> IdleCall]
    /\ resp = NoResponse
    /\ used = [sent |-> FALSE, ops |-> 0]

Init ==
    /\ InitStore
    /\ gui = GuiIdle
    /\ wire = <<>>

ReqNames == {a, b, <<"a", " ">>, Empty}
Choices == {one, two, <<" ", "1">>, <<"x">>}
\* the username field of the turns after the first
LaterNames == {b}
SenderNames == {a, b, <<" ", "b">>, c3, Empty}
Confirmations == {yes, no, Empty, YES, <<" ", "y", "e", "s", " ">>, <<"y">>}

CheckMessagesRequest(u, ch, s) == [username |-> u, choice |-> ch, sender |-> s]
ConfirmRequests == [username : ReqNames, confirmation : Confirmations]
RegisterRequests ==
    [username : {a, c3, Empty}, password : {Pw, <<"a", "b", "c">>},
     confirm_password : {Pw, <<"a", "b", "c">>}]
LoginRequests == [username : {a, c3}, password : {Pw, <<"a", "b", "c">>}]
NameRequests == [username : {a, b, c3, Empty}]
Texts ==
    { <<"@", "a", " ", "h", "i">>,
      <<" ", "@", "b", " ", "h", "i", " ">>,
      <<"@", "c", " ", "h", "i">>,
      <<"@", "a">>,
      <<"h", "i">> }
SendRequests == [message : Texts]
Metadata == {{a}, {b}, {}}

----------------------------------------------------------------------------
(* The server running one streaming call, with one SendMessage call around it *)

ClientIdle == UNCHANGED <<resp, gui, wire, used>>

Open(c) == (OpenCheck(c) \/ OpenDelete(c) \/ OpenDeactivate(c)) /\ ClientIdle

CheckTurn(c) ==
    /\ NumIn(c) < MaxTurns
    /\ \/ \E u \in ReqNames : CheckStage0(c, CheckMessagesRequest(u, Empty, Empty))
       \/ \E u \in LaterNames, ch \in Choices : CheckStage1(c, CheckMessagesRequest(u, ch, Empty))
       \/ \E u \in LaterNames, s \in SenderNames : CheckStage2(c, CheckMessagesRequest(u, Empty, s))
    /\ ClientIdle

ReadStep(c) == (Deliver(c) \/ MarkBatch(c) \/ FinishReading(c)) /\ ClientIdle

ConfirmTurn(c) ==
    \E req \in ConfirmRequests : (DeleteTurn(c, req) \/ DeactivateTurn(c, req)) /\ ClientIdle

StreamEnd(c) == (CloseStream(c) \/ CancelWaiting(c) \/ Abort(c)) /\ ClientIdle

Send == \E md \in Metadata, req \in SendRequests : SendMessage(md, req)

Next == Open(1) \/ CheckTurn(1) \/ ReadStep(1) \/ ConfirmTurn(1) \/ StreamEnd(1) \/ Send

Spec == Init /\ [][Next]_vars

----------------------------------------------------------------------------
(* The account operations, with one DeactivateAccount call *)

NextAccounts ==
    \/ OpenDeactivate(1) /\ ClientIdle
    \/ \E req \in ConfirmRequests : DeactivateTurn(1, req) /\ ClientIdle
    \/ \E req \in RegisterRequests : Register(req)
    \/ \E req \in LoginRequests : Login(req)
    \/ \E req \in NameRequests : Logoff(req)
    \/ \E req \in NameRequests : SearchUsers(req)

SpecAccounts == Init /\ [][NextAccounts]_vars

----------------------------------------------------------------------------
(* The client's confirmation sessions (clientRPC.py) against the server *)

\* number of lines the user types during one session
MaxTyped == 1

TypedInputs == {yes, no, YES, <<" ", "y", "e", "s">>}

ServerIdle == UNCHANGED <<users, messages, nextId, calls, resp, used>>

\* send_message: the command "delete" or "deactivate" starts the session thread,
\* which sets active_bidi, makes the queue and opens the call
GuiStart(kind) ==
    /\ gui.active_bidi = "none"
    /\ calls[1].pc = "idle"
    /\ gui' = [gui EXCEPT !.active_bidi = kind, !.gen = "start", !.bidi_queue = <<>>,
                          !.typed = <<>>, !.shown = 0]
    /\ UNCHANGED wire
    /\ ServerIdle

\* the server starts the handler of the call the client opened
ServeOpen ==
    /\ \/ gui.active_bidi = "delete" /\ OpenDelete(1)
       \/ gui.active_bidi = "deactivate" /\ OpenDeactivate(1)
    /\ UNCHANGED <<resp, used, gui, wire>>

\* request_gen, step 1: the trigger request with an empty confirmation
GenTrigger ==
    /\ gui.gen = "start"
    /\ wire' = Append(wire, [username |-> gui.username, confirmation |-> <<>>])
    /\ gui' = [gui EXCEPT !.gen = "wait"]
    /\ ServerIdle

\* send_message during a session: the stripped, non-empty line goes to the queue
GuiType(line) ==
    LET message == Strip(line) IN
    /\ gui.active_bidi # "none"
    /\ Len(gui.typed) < MaxTyped
    /\ message # <<>>
    /\ gui' = [gui EXCEPT !.bidi_queue = Append(@, message),
                          !.typed = Append(@, [line |-> line, seen |-> gui.shown])]
    /\ UNCHANGED wire
    /\ ServerIdle

\* request_gen, step 2: the first non-empty line of the queue, lower-cased
GenConfirm ==
    LET confirmation == Strip(Head(gui.bidi_queue)) IN
    /\ gui.gen = "wait"
    /\ gui.bidi_queue # <<>>
    /\ IF confirmation # <<>>
       THEN /\ wire' = Append(wire, [username |-> gui.username,
                                     confirmation |-> Lower(confirmation)])
            /\ gui' = [gui EXCEPT !.gen = "end", !.bidi_queue = Tail(@)]
       ELSE /\ wire' = wire
            /\ gui' = [gui EXCEPT !.bidi_queue = Tail(@)]
    /\ ServerIdle

\* the handler reads the next request the client has sent
ServeTurn ==
    /\ wire # <<>>
    /\ DeleteTurn(1, Head(wire)) \/ DeactivateTurn(1, Head(wire))
    /\ wire' = Tail(wire)
    /\ UNCHANGED <<resp, used, gui>>

\* `for resp in responses`: the next server turn is appended to the display
GuiShow ==
    /\ gui.active_bidi # "none"
    /\ gui.shown < Len(Out(1))
    /\ gui' = [gui EXCEPT !.shown = @ + 1]
    /\ UNCHANGED wire
    /\ ServerIdle

\* the response stream has ended: `finally: self.active_bidi = None`
GuiFinish ==
    /\ gui.active_bidi # "none"
    /\ calls[1].pc = "done"
    /\ gui.shown = Len(Out(1))
    /\ gui' = [gui EXCEPT !.active_bidi = "none"]
    /\ UNCHANGED wire
    /\ ServerIdle

InitGui ==
    /\ InitStore
    /\ \E u \in {a, b} : gui = [GuiIdle EXCEPT !.username = u]
    /\ wire = <<>>

NextGui ==
    \/ \E kind \in {"delete", "deactivate"} : GuiStart(kind)
    \/ ServeOpen
    \/ GenTrigger
    \/ \E line \in TypedInputs : GuiType(line)
    \/ GenConfirm
    \/ ServeTurn
    \/ GuiShow
    \/ GuiFinish

SpecGui == InitGui /\ [][NextGui]_vars

----------------------------------------------------------------------------
(* Handlers whose store accesses are separate statements, run as two          *)
(* concurrent workers: each slot of calls holds one handler in progress      *)

\* SendMessage up to and including checkRealUsername(target_username); the
\* row to insert is kept in msgs until the INSERT runs
SendCheck(c, md, req) ==
    LET full_text == Strip(req.message)
        sender == MetadataUsername(md)
        text == SendMessageResponse(users, full_text)
        parts == Split1(full_text, " ")
        got == [IdleCall EXCEPT !.kind = "send", !.username = sender,
                                !.log = <<In([md |-> md, message |-> req.message])>>]
    IN
    /\ calls[c].pc = "idle"
    /\ \A d \in 1..(c - 1) : calls[d].pc # "idle"
    /\ calls' = [calls EXCEPT ![c] =
           IF text = ""
           THEN [got EXCEPT !.pc = "insert",
                            !.msgs = <<MsgRow(0, Tail(parts[1]), sender, parts[2], 0)>>]
           ELSE [Push(got, <<Say("", text)>>) EXCEPT !.pc = "done"]]
    /\ UNCHANGED <<users, messages, nextId>>

\* (mutant: the row is inserted with isread=1)
InsertMessageAsRead(ms, row, id) == ms \cup {[row EXCEPT !.messageid = id, !.isread = 1]}

\* INSERT INTO messages (receiver, sender, message, isread) VALUES (..., 0)
InsertMessage(ms, row, id) == ms \cup {[row EXCEPT !.messageid = id]}

\* SendMessage from the INSERT on: the row gets the next messageid
SendInsert(c) ==
    LET cl == calls[c] IN
    /\ cl.kind = "send"
    /\ cl.pc = "insert"
    /\ messages' = InsertMessage(messages, cl.msgs[1], nextId)
    /\ nextId' = nextId + 1
    /\ calls' = [calls EXCEPT ![c] = [Push(cl, <<Say("", "")>>) EXCEPT !.pc = "done"]]
    /\ UNCHANGED users

\* DeleteLastMessage up to and including the SELECT of the last unread row;
\* the selected row is kept in msgs until the DELETE runs
DeleteSelect(c, req) ==
    LET cl == calls[c]
        username == Strip(req.username)
        confirm == Lower(Strip(req.confirmation))
        row == LastUnreadSent(messages, username)
        got == [cl EXCEPT !.username = username]
    IN
    /\ cl.kind = "delete"
    /\ cl.pc = "await"
    /\ calls' = [calls EXCEPT ![c] =
           IF Confirmed(confirm)
           THEN IF row = {}
                THEN [Push(got, <<In(req), NothingToDelete>>) EXCEPT !.pc = "done"]
                ELSE [Push(got, <<In(req)>>) EXCEPT !.pc = "delete",
                                                   !.msgs = <<CHOOSE m \in row : TRUE>>]
           ELSE [Push(got, <<In(req), DeleteCanceled>>) EXCEPT !.pc = "done"]]
    /\ UNCHANGED <<users, messages, nextId>>

\* DeleteLastMessage from the DELETE on (DELETE ... WHERE messageid=last_id, commit)
DeleteCommit(c) ==
    LET cl == calls[c] IN
    /\ cl.kind = "delete"
    /\ cl.pc = "delete"
    /\ messages' = DeleteById(messages, cl.msgs[1].messageid)
    /\ calls' = [calls EXCEPT ![c] = [Push(cl, <<Deleted>>) EXCEPT !.pc = "done"]]
    /\ UNCHANGED <<users, nextId>>

\* the requests of the two workers
RaceNames == {a, b}
RaceChoices == {one, two}
RaceConfirmations == {yes, no}
RaceTexts == { <<"@", "a", " ", "h", "i">>, <<"@", "c", " ", "h", "i">> }
RaceMetadata == {{a}, {b}}

RaceOpen(c) ==
    /\ \/ OpenCheck(c) \/ OpenDelete(c) \/ OpenDeactivate(c)
       \/ \E md \in RaceMetadata, text \in RaceTexts : SendCheck(c, md, [message |-> text])
    /\ ClientIdle

RaceCheckTurn(c) ==
    /\ \/ \E u \in RaceNames : CheckStage0(c, CheckMessagesRequest(u, Empty, Empty))
       \/ \E ch \in RaceChoices : CheckStage1(c, CheckMessagesRequest(b, ch, Empty))
       \/ \E s \in RaceNames : CheckStage2(c, CheckMessagesRequest(b, Empty, s))
    /\ ClientIdle

RaceConfirmTurn(c) ==
    \E u \in RaceNames, conf \in RaceConfirmations :
        /\ \/ DeleteSelect(c, [username |-> u, confirmation |-> conf])
           \/ DeactivateTurn(c, [username |-> u, confirmation |-> conf])
        /\ ClientIdle

RaceStore(c) == (SendInsert(c) \/ DeleteCommit(c)) /\ ClientIdle

NextRace ==
    \E c \in Calls :
        \/ RaceOpen(c)
        \/ RaceCheckTurn(c)
        \/ ReadStep(c)
        \/ RaceConfirmTurn(c)
        \/ RaceStore(c)

\* a generator suspended at a yield of the batch loop is resumed as long as its
\* call is open
SpecRace == Init /\ [][NextRace]_vars /\ \A c \in Calls : WF_vars(ReadStep(c))

----------------------------------------------------------------------------
(* Store failures: connectsql(), execute() or commit() raises                *)

\* (mutant: the failure is not caught, the generator ends by the exception)
FaultPropagates(cl, events) == [Push(cl, events) EXCEPT !.pc = "raised"]

\* `except Exception as e`: one 'Error: ' turn is yielded and the generator ends
FaultCaught(cl, events) ==
    [Push(cl, events \o <<ErrorTurn(Command(cl))>>) EXCEPT !.pc = "done"]

\* stage 0: the unread count fails
CheckStage0Fault(c, req) ==
    LET cl == calls[c]
        username == Strip(req.username)
    IN
    /\ cl.pc = "stage0"
    /\ username # <<>>
    /\ calls' = [calls EXCEPT ![c] =
           FaultCaught([cl EXCEPT !.username = username], <<In(req)>>)]
    /\ UNCHANGED <<users, messages, nextId>>

\* stage 1: the sender aggregation fails
CheckStage1Fault(c, req) ==
    /\ calls[c].pc = "stage1"
    /\ Strip(req.choice) = one
    /\ calls' = [calls EXCEPT ![c] = FaultCaught(calls[c], <<In(req)>>)]
    /\ UNCHANGED <<users, messages, nextId>>

\* stage 2: the fetch of the unread rows fails
CheckStage2Fault(c, req) ==
    /\ calls[c].pc = "stage2"
    /\ Strip(req.sender) # <<>>
    /\ calls' = [calls EXCEPT ![c] = FaultCaught(calls[c], <<In(req)>>)]
    /\ UNCHANGED <<users, messages, nextId>>

\* the batch loop: the UPDATE that marks the batch fails, nothing is committed
MarkBatchFault(c) ==
    LET cl == calls[c] IN
    /\ cl.pc = "reading"
    /\ cl.marked < cl.pos
    /\ cl.pos = BatchEnd(cl)
    /\ calls' = [calls EXCEPT ![c] = FaultCaught(cl, <<>>)]
    /\ UNCHANGED <<users, messages, nextId>>

CheckFault(c) ==
    /\ \/ \E u \in ReqNames : CheckStage0Fault(c, CheckMessagesRequest(u, Empty, Empty))
       \/ \E u \in LaterNames, ch \in Choices :
              CheckStage1Fault(c, CheckMessagesRequest(u, ch, Empty))
       \/ \E u \in LaterNames, s \in SenderNames :
              CheckStage2Fault(c, CheckMessagesRequest(u, Empty, s))
       \/ MarkBatchFault(c)
    /\ ClientIdle

NextCheckFaults ==
    \/ OpenCheck(1) /\ ClientIdle
    \/ CheckTurn(1)
    \/ ReadStep(1)
    \/ CheckFault(1)
    \/ StreamEnd(1)

SpecCheckFaults == Init /\ [][NextCheckFaults]_vars

\* the handler ended by an exception nothing caught: there is no response
\* message, the call fails with a transport status
Uncaught(op, req) == Response(op, req, "<exception>", FALSE, "<exception>", {})

Accesses == {"lookup", "password", "write"}

\* Register: checkRealUsername raises (outside the try), or the INSERT raises
RegisterFault(req, at) ==
    /\ used.ops < MaxOps
    /\ Strip(req.username) # <<>>
    /\ Strip(req.password) # <<>>
    /\ Strip(req.confirm_password) # <<>>
    /\ \/ /\ at = "lookup"
          /\ resp' = Uncaught("Register", req)
       \/ /\ at = "write"
          /\ RegisterResponse(users, req) = "Registration successful. You are now logged in!"
          /\ resp' = Response("Register", req, "1", FALSE,
                              "Server error during registration.", {})
    /\ used' = [used EXCEPT !.ops = @ + 1]
    /\ UNCHANGED <<users, messages, nextId, calls, gui, wire>>

\* Login: checkRealUsername, checkRealPassword or the UPDATE raises (no try)
LoginFault(req, at) ==
    /\ used.ops < MaxOps
    /\ \/ at = "lookup"
       \/ at = "password" /\ checkRealUsername(users, Strip(req.username))
       \/ at = "write" /\ LoginResponse(users, req) = "Welcome, USERNAME!"
    /\ resp' = Uncaught("Login", req)
    /\ used' = [used EXCEPT !.ops = @ + 1]
    /\ UNCHANGED <<users, messages, nextId, calls, gui, wire>>

\* SendMessage: checkRealUsername raises (outside the try), or the INSERT raises
SendMessageFault(md, req, at) ==
    LET full_text == Strip(req.message)
        asked == [md |-> md, message |-> req.message]
    IN
    /\ ~used.sent
    /\ \/ /\ at = "lookup"
          /\ StartsWith(full_text, "@")
          /\ Len(Split1(full_text, " ")) >= 2
          /\ resp' = Uncaught("SendMessage", asked)
       \/ /\ at = "write"
          /\ SendMessageResponse(users, full_text) = ""
          /\ resp' = Response("SendMessage", asked, "", FALSE, "Error storing message.", {})
    /\ used' = [used EXCEPT !.sent = TRUE]
    /\ UNCHANGED <<users, messages, nextId, calls, gui, wire>>

\* Logoff: the UPDATE raises
LogoffFault(req) ==
    /\ used.ops < MaxOps
    /\ Strip(req.username) # <<>>
    /\ resp' = Response("Logoff", req, "logoff", FALSE, "Logoff error.", {})
    /\ used' = [used EXCEPT !.ops = @ + 1]
    /\ UNCHANGED <<users, messages, nextId, calls, gui, wire>>

\* SearchUsers: the SELECT raises
SearchUsersFault(req) ==
    /\ used.ops < MaxOps
    /\ resp' = Response("SearchUsers", req, "", FALSE, "Error searching users.", {})
    /\ used' = [used EXCEPT !.ops = @ + 1]
    /\ UNCHANGED <<users, messages, nextId, calls, gui, wire>>

NextUnaryFaults ==
    \/ \E req \in RegisterRequests : Register(req)
    \/ \E req \in LoginRequests : Login(req)
    \/ \E req \in NameRequests : Logoff(req)
    \/ \E req \in NameRequests : SearchUsers(req)
    \/ Send
    \/ \E req \in RegisterRequests, at \in Accesses : RegisterFault(req, at)
    \/ \E req \in LoginRequests, at \in Accesses : LoginFault(req, at)
    \/ \E md \in Metadata, req \in SendRequests, at \in Accesses : SendMessageFault(md, req, at)
    \/ \E req \in NameRequests : LogoffFault(req)
    \/ \E req \in NameRequests : SearchUsersFault(req)

SpecUnaryFaults == Init /\ [][NextUnaryFaults]_vars

----------------------------------------------------------------------------
(* Every operation of the service, run by two concurrent workers *)

\* the requests of the account operations
AllRegister == [username |-> c3, password |-> Pw, confirm_password |-> Pw]
AllLogin == [username |-> a, password |-> Pw]
AllName == [username |-> a]

NextAll ==
    \/ NextRace
    \/ Register(AllRegister)
    \/ Login(AllLogin)
    \/ Logoff(AllName)
    \/ SearchUsers(AllName)

SpecAll == Init /\ [][NextAll]_vars

----------------------------------------------------------------------------
(* DeactivateAccount statement by statement: its two DELETEs run in one       *)
(* transaction of one connection and become visible at db.commit()           *)

\* (mutant: the connection commits every statement, autocommit=True)
AutocommitDelete(ms, u) == DeleteSentBy(ms, u)

\* the table messages as the other connections see it after this connection's
\* DELETE ... WHERE sender=u and before its commit (pymysql: autocommit is off)
UncommittedDelete(ms, u) == ms

\* the confirmation turn up to the first DELETE; the rows it deletes are kept
\* in msgs until the transaction ends
DeactivateDeleteMessages(c, req) ==
    LET cl == calls[c]
        username == Strip(req.username)
        confirmation == Lower(Strip(req.confirmation))
        got == [cl EXCEPT !.username = username]
    IN
    /\ cl.kind = "deactivate"
    /\ cl.pc = "await"
    /\ IF Confirmed(confirmation)
       THEN /\ messages' = UncommittedDelete(messages, username)
            /\ calls' = [calls EXCEPT ![c] =
                   [Push(got, <<In(req)>>) EXCEPT
                       !.pc = "tx_messages",
                       !.msgs = OrderByMessageid({m \in messages : m.sender = username})]]
       ELSE /\ messages' = messages
            /\ calls' = [calls EXCEPT ![c] =
                   [Push(got, <<In(req), DeactivateCanceled>>) EXCEPT !.pc = "done"]]
    /\ UNCHANGED <<users, nextId>>

\* DELETE FROM users WHERE username=u, in the same transaction
DeactivateDeleteUser(c) ==
    /\ calls[c].kind = "deactivate"
    /\ calls[c].pc = "tx_messages"
    /\ calls' = [calls EXCEPT ![c].pc = "tx_user"]
    /\ UNCHANGED <<users, messages, nextId>>

\* db.commit(): both deletions take effect; then the result turn
DeactivateCommit(c) ==
    LET cl == calls[c]
        ids == {cl.msgs[i].messageid : i \in 1..Len(cl.msgs)}
    IN
    /\ cl.kind = "deactivate"
    /\ cl.pc = "tx_user"
    /\ messages' = {m \in messages : m.messageid \notin ids}
    /\ users' = DeleteUser(users, cl.username)
    /\ calls' = [calls EXCEPT ![c] = [Push(cl, <<Removed>>) EXCEPT !.pc = "done"]]
    /\ UNCHANGED nextId

\* a statement of the transaction raises: the connection is closed without a
\* commit (the transaction is rolled back) and the except branch answers
DeactivateFault(c) ==
    /\ calls[c].kind = "deactivate"
    /\ calls[c].pc \in {"tx_messages", "tx_user"}
    /\ calls' = [calls EXCEPT ![c] = FaultCaught(calls[c], <<>>)]
    /\ UNCHANGED <<users, messages, nextId>>

TxSearch == [username |-> b]

TxOpen(c) ==
    /\ \/ OpenCheck(c) \/ OpenDeactivate(c)
       \/ \E md \in RaceMetadata, text \in RaceTexts : SendCheck(c, md, [message |-> text])
    /\ ClientIdle

TxDeactivate(c) ==
    /\ \/ \E u \in RaceNames, conf \in RaceConfirmations :
              DeactivateDeleteMessages(c, [username |-> u, confirmation |-> conf])
       \/ DeactivateDeleteUser(c)
       \/ DeactivateCommit(c)
       \/ DeactivateFault(c)
    /\ ClientIdle

NextTx ==
    \/ \E c \in Calls :
          \/ TxOpen(c)
          \/ TxDeactivate(c)
          \/ RaceCheckTurn(c)
          \/ ReadStep(c)
          \/ SendInsert(c) /\ ClientIdle
    \/ Login(AllLogin)
    \/ SearchUsers(TxSearch)

SpecTx == Init /\ [][NextTx]_vars

----------------------------------------------------------------------------
(* Register as two store accesses, run by two concurrent workers *)

Pw2 == <<"A", "b", "c", "d", "e", "1", "#">>

\* users.username is the primary key of the table: an INSERT of a second row
\* with the username of an existing one is refused with an IntegrityError
DuplicateKey(us, row) == \E r \in us : r.username = row.username

\* Register up to the last check before the INSERT; the row to insert is kept
\* in msgs
RegisterCheck(c, req) ==
    LET text == RegisterResponse(users, req)
        got == [IdleCall EXCEPT !.kind = "register", !.username = Strip(req.username),
                                !.log = <<In(req)>>]
    IN
    /\ calls[c].pc = "idle"
    /\ \A d \in 1..(c - 1) : calls[d].pc # "idle"
    /\ calls' = [calls EXCEPT ![c] =
           IF text = "Registration successful. You are now logged in!"
           THEN [got EXCEPT !.pc = "insert",
                            !.msgs = <<UserRow(Strip(req.username),
                                               hashPass(Strip(req.password)), 1)>>]
           ELSE [Push(got, <<Say("1", text)>>) EXCEPT !.pc = "done"]]
    /\ UNCHANGED <<users, messages, nextId>>

\* (mutant: the except branch answers like the success branch)
RegisterInsertHidesError(c) ==
    LET cl == calls[c] IN
    /\ cl.kind = "register"
    /\ cl.pc = "insert"
    /\ users' = IF DuplicateKey(users, cl.msgs[1]) THEN users ELSE users \cup {cl.msgs[1]}
    /\ calls' = [calls EXCEPT ![c] =
           [Push(cl, <<Say("1", "Registration successful. You are now logged in!")>>)
               EXCEPT !.pc = "done"]]
    /\ UNCHANGED <<messages, nextId>>

\* Register from the INSERT on: try / except Exception
RegisterInsert(c) ==
    LET cl == calls[c] IN
    /\ cl.kind = "register"
    /\ cl.pc = "insert"
    /\ IF DuplicateKey(users, cl.msgs[1])
       THEN /\ users' = users
            /\ calls' = [calls EXCEPT ![c] =
                   [Push(cl, <<Say("1", "Server error during registration.")>>)
                       EXCEPT !.pc = "done"]]
       ELSE /\ users' = users \cup {cl.msgs[1]}
            /\ calls' = [calls EXCEPT ![c] =
                   [Push(cl, <<Say("1", "Registration successful. You are now logged in!")>>)
                       EXCEPT !.pc = "done"]]
    /\ UNCHANGED <<messages, nextId>>

RaceRegisterRequests ==
    {[username |-> u, password |-> p, confirm_password |-> p] : u \in {a, c3}, p \in {Pw, Pw2}}

NextRegister ==
    \E c \in Calls :
        \/ \E req \in RaceRegisterRequests : RegisterCheck(c, req) /\ ClientIdle
        \/ RegisterInsert(c) /\ ClientIdle

SpecRegister == Init /\ [][NextRegister]_vars

----------------------------------------------------------------------------
(* The password policy on its own: checkValidPassword applied to every
   password over one representative per character class *)

\* the longest password drawn
MaxPwLen == 7

abc == <<"a", "b", "c">>
abcdefg == <<"a", "b", "c", "d", "e", "f", "g">>
Abcdef1Bang == <<"A", "b", "c", "d", "e", "f", "1", "!">>

PwClasses == {"lower", "upper", "digit", "special"}

PwChar(class, special) ==
    CASE class = "lower" -> "b"
      [] class = "upper" -> "A"
      [] class = "digit" -> "1"
      [] class = "special" -> special

\* the passwords checked: every arrangement of the classes up to a length, with
\* each of the special characters, and the three passwords of the policy's examples
Passwords(longest) ==
    {[i \in 1..Len(shape) |-> PwChar(shape[i], sp)] :
        shape \in UNION {[1..n -> PwClasses] : n \in 0..longest}, sp \in Specials}
    \cup {abc, abcdefg, Abcdef1Bang}

InitPassword ==
    /\ users = InitUsers
    /\ messages = {}
    /\ nextId = 1
    /\ calls = [c \in Calls |-> IdleCall]
    /\ resp = NoResponse
    /\ used = [sent |-> FALSE, ops |-> 0]
    /\ gui = GuiIdle
    /\ wire \in Passwords(MaxPwLen)

\* one call of checkValidPassword(wire); resp holds its argument and its result
PasswordCheck ==
    /\ resp.op = "none"
    /\ resp' = Response("checkValidPassword", wire, "", checkValidPassword(wire), "", {})
    /\ UNCHANGED <<users, messages, nextId, calls, gui, wire, used>>

NextPassword == PasswordCheck

SpecPassword == InitPassword /\ [][NextPassword]_vars

----------------------------------------------------------------------------
(* One CheckMessages call with a client that eventually answers or closes *)

\* the requests of the client
TermNames == {a, Empty}
TermChoices == {one, two, <<"x">>}
TermSenders == {b, c3, Empty}

TermTurn(c) ==
    /\ NumIn(c) < MaxTurns
    /\ \/ \E u \in TermNames : CheckStage0(c, CheckMessagesRequest(u, Empty, Empty))
       \/ \E ch \in TermChoices : CheckStage1(c, CheckMessagesRequest(b, ch, Empty))
       \/ \E s \in TermSenders : CheckStage2(c, CheckMessagesRequest(b, Empty, s))
    /\ ClientIdle

\* the client turns that move the conversation on: any first turn, a choice of
\* '1' or '2', a non-empty sender name
ValidTurn(c) ==
    /\ NumIn(c) < MaxTurns
    /\ \/ \E u \in TermNames : CheckStage0(c, CheckMessagesRequest(u, Empty, Empty))
       \/ \E ch \in {ch \in TermChoices : Strip(ch) \in {one, two}} :
              CheckStage1(c, CheckMessagesRequest(b, ch, Empty))
       \/ \E s \in {s \in TermSenders : Strip(s) # Empty} :
              CheckStage2(c, CheckMessagesRequest(b, Empty, s))

\* the client half-closes its request stream or sends such a turn
ClientProgress(c) == (CloseStream(c) \/ ValidTurn(c)) /\ ClientIdle

NextTerm ==
    \/ OpenCheck(1) /\ ClientIdle
    \/ TermTurn(1)
    \/ ReadStep(1)
    \/ StreamEnd(1)

\* the server resumes a generator suspended in the batch loop; the client
\* eventually sends a valid turn or closes the stream
SpecTerm ==
    /\ Init
    /\ [][NextTerm]_vars
    /\ WF_vars(ReadStep(1))
    /\ WF_vars(ClientProgress(1))

----------------------------------------------------------------------------
(* The client's CheckMessages session (check_messages_stream) against the
   server: the lines the user types go through the client's request generator *)

\* number of lines the user types during one CheckMessages session
MaxCheckTyped == 3
\* the senders, users named '1' and '2' among them
CheckSenders == {b, one, two}
CheckTyped == {one, two, b}

\* the messageid of the sender's message in the initial store
SenderIndex(s) == CASE s = b -> 1 [] s = one -> 2 [] s = two -> 3

InitCheckGui ==
    /\ users = InitUsers \cup {UserRow(s, hashPass(Pw), 1) : s \in CheckSenders}
    /\ \E from \in SUBSET CheckSenders, second \in BOOLEAN :
          messages = {MsgRow(SenderIndex(s), a, s, hi, 0) : s \in from}
                     \cup (IF second /\ b \in from THEN {MsgRow(4, a, b, hi, 0)} ELSE {})
    /\ nextId = 5
    /\ calls = [c \in Calls |-> IdleCall]
    /\ resp = NoResponse
    /\ used = [sent |-> FALSE, ops |-> 0]
    /\ gui = GuiIdle
    /\ wire = <<>>

\* check_messages_stream: active_bidi is set and the queue is made
CheckGuiStart ==
    /\ gui.active_bidi = "none"
    /\ calls[1].pc = "idle"
    /\ gui' = [gui EXCEPT !.active_bidi = "check", !.gen = "start", !.bidi_queue = <<>>,
                          !.typed = <<>>, !.shown = 0]
    /\ UNCHANGED wire
    /\ ServerIdle

\* the server starts the handler of the call the client opened
CheckServeOpen ==
    /\ gui.active_bidi = "check"
    /\ OpenCheck(1)
    /\ UNCHANGED <<resp, used, gui, wire>>

\* request_generator, first yield: the username
CheckGenFirst ==
    /\ gui.active_bidi = "check"
    /\ gui.gen = "start"
    /\ wire' = Append(wire, CheckMessagesRequest(gui.username, Empty, Empty))
    /\ gui' = [gui EXCEPT !.gen = "loop"]
    /\ ServerIdle

\* send_message during the session: the stripped, non-empty line goes to the queue
CheckGuiType(line) ==
    LET message == Strip(line) IN
    /\ gui.active_bidi = "check"
    /\ Len(gui.typed) < MaxCheckTyped
    /\ message # <<>>
    /\ gui' = [gui EXCEPT !.bidi_queue = Append(@, message),
                          !.typed = Append(@, [line |-> line, seen |-> gui.shown])]
    /\ UNCHANGED wire
    /\ ServerIdle

\* the request the generator's loop makes of one line of the queue
request_generator(username, user_input) ==
    IF user_input \in {one, two}
    THEN CheckMessagesRequest(username, user_input, Empty)
    ELSE CheckMessagesRequest(username, Empty, user_input)

\* request_generator, the loop: the next line of the queue becomes a request
CheckGenNext ==
    /\ gui.active_bidi = "check"
    /\ gui.gen = "loop"
    /\ gui.bidi_queue # <<>>
    /\ wire' = Append(wire, request_generator(gui.username, Head(gui.bidi_queue)))
    /\ gui' = [gui EXCEPT !.bidi_queue = Tail(@)]
    /\ ServerIdle

\* the handler reads the next request the client has sent
CheckServeTurn ==
    /\ wire # <<>>
    /\ \/ CheckStage0(1, Head(wire))
       \/ CheckStage1(1, Head(wire))
       \/ CheckStage2(1, Head(wire))
    /\ wire' = Tail(wire)
    /\ UNCHANGED <<resp, used, gui>>

NextCheckGui ==
    \/ CheckGuiStart
    \/ CheckServeOpen
    \/ CheckGenFirst
    \/ \E line \in CheckTyped : CheckGuiType(line)
    \/ CheckGenNext
    \/ CheckServeTurn
    \/ ReadStep(1)
    \/ GuiShow
    \/ GuiFinish

SpecCheckGui == InitCheckGui /\ [][NextCheckGui]_vars

----------------------------------------------------------------------------
(* Properties *)

Last(seq) == seq[Len(seq)]

\* the turns of the reading phase of a call: deliveries, batch confirmations
\* and the final turn
IsReadTurn(e) ==
    /\ e.dir = "out"
    /\ e.server_message \in {Delivery(NoRow).server_message, BatchMarked.server_message,
                             DoneReading.server_message}
ReadTurns(cl) == SelectSeq(cl.log, IsReadTurn)

\* the unread rows the store holds for receiver r from sender s
UnreadFromTo(ms, r, s) == {m \in ms : m.receiver = r /\ m.sender = s /\ m.isread = 0}

\* the turn expected at place p of the reading phase of k rows: after every 5
\* deliveries, and after the last one, a batch confirmation; at the end the final turn
ExpectedReadTurn(rows, p) ==
    LET k == Len(rows)
        g == (p - 1) \div 6
        o == (p - 1) % 6
    IN IF p = k + ((k + 4) \div 5) + 1 THEN DoneReading
       ELSE IF o = 5 \/ 5 * g + o = k THEN BatchMarked
       ELSE Delivery(rows[5 * g + o + 1])

C1_Finished(c) ==
    LET cl == calls[c]
        k == Len(cl.msgs)
        turns == ReadTurns(cl)
    IN (cl.kind = "check" /\ cl.pc = "done" /\ k >= 1) =>
          /\ Len(turns) = k + ((k + 4) \div 5) + 1
          /\ \A p \in 1..Len(turns) : turns[p] = ExpectedReadTurn(cl.msgs, p)
          /\ \A i, j \in 1..k : i < j => cl.msgs[i].messageid < cl.msgs[j].messageid

\* the sender turn takes exactly the rows that are unread for the user from the
\* chosen sender at that moment
C1_Fetch(c) ==
    (calls[c].pc = "stage2" /\ calls'[c].pc = "reading") =>
        LET rows == calls'[c].msgs
            s == Strip(Last(InOf(calls'[c])).req.sender)
            unread == UnreadFromTo(messages, calls[c].username, s)
        IN /\ Len(rows) = Cardinality(unread)
           /\ {rows[i] : i \in 1..Len(rows)} = unread

\* C1: a CheckMessages call that reads a sender with k >= 1 unread messages
\* emits exactly k delivery turns in ascending message-id order, a
\* '(This batch marked as read.)' turn after each group of at most 5 deliveries
\* (ceil(k/5) of them) and then one 'Done reading messages from this sender.' turn.
C1_Batching == [](\A c \in Calls : C1_Finished(c)) /\ [][\A c \in Calls : C1_Fetch(c)]_vars

\* a call has read 6 rows in two batches
C1_Witness ==
    \E c \in Calls :
        /\ calls[c].pc = "done"
        /\ Len(calls[c].msgs) = 6
        /\ Last(calls[c].log) = DoneReading
        /\ Len(SelectSeq(calls[c].log, LAMBDA e : e = BatchMarked)) = 2


\* the first turn of a call is answered from the user's unread count
C2_FirstTurn(c) ==
    (calls[c].pc = "stage0" /\ Len(InOf(calls'[c])) = 1) =>
        LET u == Strip(Last(InOf(calls'[c])).req.username)
            n == Cardinality({m \in messages : m.receiver = u /\ m.isread = 0})
        IN u # <<>> =>
              IF n = 0
              THEN calls'[c].pc = "done" /\ OutOf(calls'[c]) = <<ZeroUnread>>
              ELSE calls'[c].pc = "stage1" /\ OutOf(calls'[c]) = <<UnreadPrompt(n)>>

C2_Waits(c) ==
    LET cl == calls[c] IN
    cl.kind = "check" =>
       /\ (cl.pc = "stage1" /\ NumIn(c) = 1) =>
              Len(Out(c)) = 1 /\ Out(c)[1].n > 0 /\ Out(c)[1] = UnreadPrompt(Out(c)[1].n)
       /\ (Out(c) # <<>> /\ Out(c)[1] = ZeroUnread) =>
              cl.pc = "done" /\ NumIn(c) = 1 /\ Len(Out(c)) = 1

\* C2: after the username turn of CheckMessages, an unread count of 0 gives
\* exactly one server turn ('You have 0 unread messages.') and the call ends
\* without consuming another client turn; an unread count > 0 gives the
\* 'type 1 or 2' prompt, the call waits in the await-choice stage and emits
\* nothing more while no choice turn has arrived.
C2_FirstTurnOutcome ==
    [](\A c \in Calls : C2_Waits(c)) /\ [][\A c \in Calls : C2_FirstTurn(c)]_vars

\* a user with no unread message, in a store that holds messages, got the
\* single '0 unread' turn
C2_Witness ==
    \E c \in Calls :
        /\ calls[c].pc = "done"
        /\ Out(c) = <<ZeroUnread>>
        /\ \E m \in messages : m.receiver = calls[c].username /\ m.isread = 1

\* SendMessage that succeeds adds one unread row, counted for its receiver
C3_Send ==
    (~used.sent /\ used'.sent /\ resp'.success) =>
        \E m \in messages' :
            /\ m \notin messages
            /\ messages' = messages \cup {m}
            /\ m.isread = 0
            /\ m.message = hi
            /\ Cardinality({x \in messages' : x.receiver = m.receiver /\ x.isread = 0})
                 = Cardinality({x \in messages : x.receiver = m.receiver /\ x.isread = 0}) + 1

\* the sender turn takes every row that is unread for the user from that sender
C3_Fetch(c) ==
    (calls[c].pc = "stage2" /\ Len(InOf(calls'[c])) = Len(InOf(calls[c])) + 1) =>
        LET s == Strip(Last(InOf(calls'[c])).req.sender) IN
        s # <<>> =>
            \A m \in UnreadFromTo(messages, calls[c].username, s) :
                \E i \in 1..Len(calls'[c].msgs) : calls'[c].msgs[i] = m

\* once the call has finished reading, every row it took was delivered and no
\* row of the store with that id is unread
C3_Done(c) ==
    LET cl == calls[c] IN
    (cl.kind = "check" /\ cl.pc = "done" /\ cl.log # <<>> /\ Last(cl.log) = DoneReading) =>
        \A i \in 1..Len(cl.msgs) :
            /\ \E p \in 1..Len(cl.log) : cl.log[p] = Delivery(cl.msgs[i])
            /\ \A m \in messages :
                   m.messageid = cl.msgs[i].messageid =>
                       m.isread = 1 /\ m \notin {x \in messages : x.receiver = cl.username
                                                                   /\ x.isread = 0}

\* C3: a message inserted by a successful SendMessage to r is counted as unread
\* for r, is delivered by a CheckMessages call of r that picks its sender, and
\* once that call has finished reading the sender it is not counted as unread
\* in any later state.
C3_RoundTrip ==
    /\ [](\A c \in Calls : C3_Done(c))
    /\ [][C3_Send /\ \A c \in Calls : C3_Fetch(c)]_vars

\* the message a SendMessage call inserted has been read by a finished call
C3_Witness ==
    \E c \in Calls :
        /\ calls[c].pc = "done"
        /\ calls[c].msgs # <<>>
        /\ Last(calls[c].log) = DoneReading
        /\ used.sent /\ resp.success
        /\ \E i \in 1..Len(calls[c].msgs) : calls[c].msgs[i].messageid = nextId - 1
        /\ UnreadCount(messages, calls[c].username) = 0


\* a step in which call c consumes its confirmation turn
ConfirmStep(c) ==
    /\ calls[c].kind \in {"delete", "deactivate"}
    /\ calls[c].pc = "await"
    /\ Len(InOf(calls'[c])) = 1

\* the request consumed by that step
ConfirmReq(c) == Last(InOf(calls'[c])).req

C4_Step(c) ==
    (ConfirmStep(c) /\ calls[c].kind = "delete") =>
        LET u == Strip(ConfirmReq(c).username)
            sent == {m \in messages : m.sender = u /\ m.isread = 0}
        IN (ConfirmReq(c).confirmation = yes /\ sent # {}) =>
              /\ \E m \in sent :
                    /\ \A o \in sent : o.messageid <= m.messageid
                    /\ messages' = messages \ {m}
              /\ users' = users
              /\ calls'[c].pc = "done"
              /\ Last(calls'[c].log) = Deleted

\* C4: DeleteLastMessage with confirmation 'yes' for a user u who has an unread
\* sent message deletes exactly the message with the greatest id among those
\* with sender = u and is_read = false, changes no other message and no user
\* row, and answers 'Your last unread message was deleted.'.
C4_DeleteLast == [][\A c \in Calls : C4_Step(c)]_vars

\* a deletion that left behind a newer, read message of the same sender and
\* an older unread one
C4_Witness ==
    \E c \in Calls :
        /\ calls[c].kind = "delete"
        /\ calls[c].pc = "done"
        /\ Last(calls[c].log) = Deleted
        /\ \E m \in messages :
              m.sender = calls[c].username /\ m.isread = 1 /\ m.messageid = nextId - 1
        /\ \E m \in messages : m.sender = calls[c].username /\ m.isread = 0

C5_NoDeletion(c) ==
    /\ messages' = messages
    /\ users' = users
    /\ calls'[c].pc = "done"
    /\ Last(calls'[c].log) =
         (IF calls[c].kind = "delete" THEN DeleteCanceled ELSE DeactivateCanceled)

\* C5 as claimed: a confirmation other than the exact string "yes" never
\* deletes a message or a user and is answered with the 'canceled' turn.
C5_ExactYesOnly ==
    [][\A c \in Calls :
         (ConfirmStep(c) /\ ConfirmReq(c).confirmation # yes) => C5_NoDeletion(c)]_vars

\* the answer is the word yes in any letter case, with blanks around it or not
SaysYes(conf) ==
    \E i \in 1..Len(conf) :
        /\ i + 2 <= Len(conf)
        /\ conf[i] \in {"y", "Y"} /\ conf[i + 1] \in {"e", "E"} /\ conf[i + 2] \in {"s", "S"}
        /\ \A k \in 1..Len(conf) : (k < i \/ k > i + 2) => conf[k] = " "

\* C5 (amended): a confirmation that is not "yes" once surrounding blanks are
\* removed and letters are lower-cased (for example "no", "", "y") never
\* deletes a message or a user and is answered with the 'canceled' turn.
C5_NonYesCancels ==
    [][\A c \in Calls :
         (ConfirmStep(c) /\ ~SaysYes(ConfirmReq(c).confirmation)) => C5_NoDeletion(c)]_vars

\* a call was canceled by the answer "y", by a user who has unread sent messages
C5_Witness ==
    \E c \in Calls :
        /\ calls[c].pc = "done"
        /\ NumIn(c) = 1
        /\ calls[c].kind \in {"delete", "deactivate"}
        /\ InOf(calls[c])[1].req.confirmation = <<"y">>
        /\ Last(calls[c].log) \in {DeleteCanceled, DeactivateCanceled}
        /\ \E m \in messages : m.sender = calls[c].username /\ m.isread = 0

C6_Step(c) ==
    (ConfirmStep(c) /\ calls[c].kind = "delete") =>
        LET u == Strip(ConfirmReq(c).username)
            sent == {m \in messages : m.sender = u /\ m.isread = 0}
        IN (ConfirmReq(c).confirmation = yes /\ sent = {}) =>
              /\ messages' = messages
              /\ users' = users
              /\ calls'[c].pc = "done"
              /\ Last(calls'[c].log) = NothingToDelete

\* C6: DeleteLastMessage with confirmation 'yes' for a username without an
\* unread sent message answers 'No unread messages to delete.', ends, and
\* leaves the messages and the users unchanged.
C6_NothingToDelete == [][\A c \in Calls : C6_Step(c)]_vars

\* the answer was given while other users' unread messages were in the store
C6_Witness ==
    \E c \in Calls :
        /\ calls[c].pc = "done"
        /\ calls[c].log # <<>>
        /\ Last(calls[c].log) = NothingToDelete
        /\ \E m \in messages : m.isread = 0


C7_Step(c) ==
    (ConfirmStep(c) /\ calls[c].kind = "deactivate" /\ ConfirmReq(c).confirmation = yes) =>
        LET u == Strip(ConfirmReq(c).username) IN
        /\ calls'[c].pc = "done"
        /\ Last(calls'[c].log) = Removed
        /\ \A m \in messages' : m.sender # u
        /\ \A row \in users' : row.username # u
        /\ \A caller \in NameRequests : u \notin SearchResult(users', Strip(caller.username))
        /\ \A pw \in {Pw, Empty} :
               LoginResponse(users', [username |-> u, password |-> pw]) = "User not found."

\* the user whose account call 1 has removed, while no row of that name exists
Removed1(u) ==
    /\ calls[1].kind = "deactivate"
    /\ calls[1].pc = "done"
    /\ Last(calls[1].log) = Removed
    /\ calls[1].username = u
    /\ \A row \in users : row.username # u

\* a SearchUsers or Login call that runs while the removed user is absent
C7_Later ==
    (used'.ops = used.ops + 1) =>
        \A u \in {a, b} :
            Removed1(u) =>
                /\ resp'.op = "SearchUsers" => u \notin resp'.usernames
                /\ (resp'.op = "Login" /\ Strip(resp'.req.username) = u) =>
                       resp'.server_message = "User not found."

\* C7: once DeactivateAccount with confirmation 'yes' for user u has emitted its
\* result turn, no message with sender = u and no user row of u is in the
\* store; a subsequent SearchUsers does not list u and a subsequent Login(u)
\* answers 'User not found.'.
C7_DeactivateCascade == [][C7_Later /\ \A c \in Calls : C7_Step(c)]_vars

\* after a's account was removed, b searched and a logged in
C7_Witness ==
    /\ Removed1(a)
    /\ used.ops = 2
    /\ resp.op = "Login"
    /\ resp.req.username = a
    /\ resp.server_message = "User not found."

ConfirmPrompt(cl) == IF cl.kind = "delete" THEN DeletePrompt ELSE DeactivatePrompt
ConfirmResults(cl) ==
    IF cl.kind = "delete" THEN {NothingToDelete, Deleted, DeleteCanceled}
    ELSE {Removed, DeactivateCanceled}

\* C8 as claimed: every DeleteLastMessage or DeactivateAccount call that has
\* ended emitted the prompt, consumed exactly one client turn and emitted
\* exactly one result turn.
C8_ExactlyOneRoundTrip ==
    \A c \in Calls :
        (calls[c].kind \in {"delete", "deactivate"} /\ calls[c].pc = "done") =>
            /\ NumIn(c) = 1
            /\ Len(Out(c)) = 2
            /\ Out(c)[1] = ConfirmPrompt(calls[c])
            /\ Out(c)[2] \in ConfirmResults(calls[c])

\* C8 (amended): the prompt is emitted before any client turn is consumed; at
\* most one client turn is consumed and at most two server turns are emitted;
\* a consumed turn is answered by exactly one result turn, which ends the
\* call; a call whose client closes or cancels the stream without sending a
\* turn consumes none and emits, after the prompt, at most an 'Error: ' turn.
C8_PromptTurnResult ==
    \A c \in Calls :
        LET cl == calls[c] IN
        cl.kind \in {"delete", "deactivate"} =>
            /\ cl.log # <<>> /\ cl.log[1] = ConfirmPrompt(cl)
            /\ NumIn(c) <= 1
            /\ Len(Out(c)) <= 2
            /\ NumIn(c) = 1 =>
                  /\ cl.pc = "done"
                  /\ Len(cl.log) = 3
                  /\ cl.log[2].dir = "in"
                  /\ cl.log[3] \in ConfirmResults(cl)
            /\ NumIn(c) = 0 =>
                  \/ Out(c) = <<ConfirmPrompt(cl)>>
                  \/ cl.pc = "done" /\ Out(c) = <<ConfirmPrompt(cl), ErrorTurn(Command(cl))>>

\* a call that consumed its one turn and answered it
C8_Witness ==
    \E c \in Calls :
        /\ calls[c].kind = "delete"
        /\ calls[c].pc = "done"
        /\ calls[c].log = <<DeletePrompt,
                            In([username |-> b, confirmation |-> yes]), Deleted>>


\* C9: when the client drives delete_last_message_stream or
\* deactivate_account_stream, the result turn is decided by the confirmation
\* the user typed after seeing the prompt: a user who types 'yes' gets the
\* deletion or deactivation performed (or, with nothing to delete, is told so).
C9_TypedYesPerforms ==
    (/\ calls[1].pc = "done"
     /\ NumIn(1) = 1
     /\ gui.typed # <<>>
     /\ gui.typed[1].line = yes
     /\ gui.typed[1].seen >= 1) =>
        Last(calls[1].log) \in {Deleted, NothingToDelete, Removed}

\* the index of the first and of the last row of the batch that holds row i
BatchFirst(i) == batch_size * ((i - 1) \div batch_size) + 1
BatchLast(i, k) == IF BatchFirst(i) + batch_size - 1 < k
                   THEN BatchFirst(i) + batch_size - 1 ELSE k

\* the number of message-delivery turns the call has emitted
IsDelivery(e) == e.dir = "out" /\ e.server_message = Delivery(NoRow).server_message
Deliveries(c) == SelectSeq(calls[c].log, IsDelivery)
Delivered(c) == Len(Deliveries(c))

IsRead(id) == \E m \in messages : m.messageid = id /\ m.isread = 1

\* C10 as claimed: a batch is marked read only after the client has
\* acknowledged its delivery, i.e. the turn before every 'batch marked'
\* confirmation is a turn the server consumed from the client.
C10_MarkedAfterAcknowledgement ==
    \A c \in Calls :
        \A p \in 1..Len(calls[c].log) :
            calls[c].log[p] = BatchMarked => (p > 1 /\ calls[c].log[p - 1].dir = "in")

\* C10 (amended): a message of a call's snapshot is read in the store only if
\* every message of its batch has been emitted by the server as a delivery
\* turn (no acknowledgement of the client is awaited); so a call that stops
\* between batches or inside a batch leaves every message of a batch that was
\* not fully emitted unread.
C10_MarkedOnlyWhenBatchEmitted ==
    \A c \in Calls :
        LET cl == calls[c] IN
        \A i \in 1..Len(cl.msgs) :
            IsRead(cl.msgs[i].messageid) =>
                /\ Delivered(c) >= BatchLast(i, Len(cl.msgs))
                /\ \A j \in BatchFirst(i)..BatchLast(i, Len(cl.msgs)) :
                       /\ Deliveries(c)[j] = Delivery(cl.msgs[j])
                       /\ IsRead(cl.msgs[j].messageid)

\* the call was aborted after the first batch was marked and the sixth row was
\* emitted: the sixth row is still unread
C10_Witness ==
    \E c \in Calls :
        /\ calls[c].pc = "aborted"
        /\ Len(calls[c].msgs) = batch_size + 1
        /\ Delivered(c) = batch_size + 1
        /\ IsRead(calls[c].msgs[batch_size].messageid)
        /\ ~IsRead(calls[c].msgs[batch_size + 1].messageid)


\* the rows of a store with the read flag blanked
Unflagged(ms) == {[m EXCEPT !.isread = 0] : m \in ms}

HasError(cl) == \E p \in 1..Len(cl.log) : cl.log[p] = ErrorTurn(Command(cl))

BothReaders == \A c \in Calls : calls[c].kind = "check"

\* a CheckMessages call that fetched rows and ended: its last turn is the final
\* turn, it emitted no error turn, and its rows are read (all of them still
\* stored, unaltered, when the other call is a CheckMessages call too)
C11_Ended ==
    \A c \in Calls :
        LET cl == calls[c] IN
        (cl.kind = "check" /\ cl.pc = "done" /\ cl.msgs # <<>>) =>
            /\ Last(cl.log) = DoneReading
            /\ ~HasError(cl)
            /\ \A i \in 1..Len(cl.msgs) :
                  /\ \A m \in messages : m.messageid = cl.msgs[i].messageid => m.isread = 1
                  /\ BothReaders => [cl.msgs[i] EXCEPT !.isread = 1] \in messages

\* a step of a CheckMessages call deletes and alters no row except for read
\* flags it sets, and leaves the store as it is when the rows are read already
C11_Step ==
    \A c \in Calls :
        (calls[c].kind = "check" /\ calls'[c] # calls[c]) =>
            /\ Unflagged(messages') = Unflagged(messages)
            /\ Cardinality(messages') = Cardinality(messages)
            /\ \A m \in messages : m.isread = 1 => m \in messages'
            /\ (\A m \in messages : m.messageid \in BatchIds(calls[c]) => m.isread = 1)
                   => messages' = messages

\* C11: two concurrent CheckMessages calls of one user reading one sender both
\* run to their 'Done reading' turn without an error turn; every message of
\* either snapshot ends read; marking a read message changes nothing; no
\* message is deleted or altered except for its read flag.
C11_TwoReaders ==
    /\ []C11_Ended
    /\ [][C11_Step]_vars
    /\ \A c \in Calls :
           (calls[c].kind = "check" /\ calls[c].pc = "reading")
               ~> (calls[c].pc = "done" /\ Last(calls[c].log) = DoneReading)

\* both calls delivered the same six rows and ended
C11_Witness ==
    /\ \A c \in Calls :
          /\ calls[c].kind = "check"
          /\ calls[c].pc = "done"
          /\ calls[c].username = a
          /\ Len(calls[c].msgs) = batch_size + 1
          /\ Delivered(c) = batch_size + 1
    /\ calls[1].msgs = calls[2].msgs


\* the rows a step adds to the table messages
Inserted == {m \in messages' : \A o \in messages : o.messageid # m.messageid}

\* C12: under any interleaving of SendMessage with DeactivateAccount of the
\* recipient, the receiver of a message is an existing user at the moment the
\* message is inserted.
C12_ReceiverExistsAtInsert ==
    [][\A m \in Inserted : checkRealUsername(users', m.receiver)]_vars

\* C13: under any interleaving with a CheckMessages call of the receiver, a
\* message deleted by DeleteLastMessage is unread at the moment it is deleted.
C13_DeletedIsUnread ==
    [][\A c \in Calls :
          (calls[c].kind = "delete" /\ calls[c].pc = "delete" /\ calls'[c].pc = "done") =>
              \A m \in messages : m \notin messages' => m.isread = 0]_vars


\* C14: when the client aborts a streaming call while the handler waits for
\* the next client turn, the handler ends without emitting a further server
\* turn (in particular no 'Error: ' turn) and without changing the store.
C14_AbortIsSilent ==
    [][\A c \in Calls :
          (/\ Waiting(c)
           /\ calls'[c].pc \in {"done", "aborted"}
           /\ InOf(calls'[c]) = InOf(calls[c])) =>
              /\ OutOf(calls'[c]) = OutOf(calls[c])
              /\ messages' = messages
              /\ users' = users]_vars


ErrorCount(cl) == Len(SelectSeq(cl.log, LAMBDA e : e = ErrorTurn(Command(cl))))

\* a step of a CheckMessages call in which no client turn is answered by a
\* regular turn although one was consumed, or the batch was due to be marked
\* and was not: the step of a store failure
FailureStep(c) ==
    \/ /\ NumIn(c) < Len(InOf(calls'[c]))
       /\ Last(calls'[c].log) \in {ErrorTurn("checkmessages"), In(Last(InOf(calls'[c])).req)}
    \/ /\ calls[c].pc = "reading"
       /\ calls[c].marked < calls[c].pos
       /\ calls[c].pos = BatchEnd(calls[c])
       /\ calls'[c] # calls[c]
       /\ calls'[c].pc # "aborted"
       /\ messages' = messages

C15_Step ==
    \A c \in Calls :
        (calls[c].kind = "check" /\ FailureStep(c)) =>
            /\ calls'[c].pc = "done"
            /\ Last(calls'[c].log) = ErrorTurn("checkmessages")
            /\ ErrorCount(calls'[c]) = 1
            /\ OutOf(calls'[c]) = Append(Out(c), ErrorTurn("checkmessages"))

C15_Ended ==
    \A c \in Calls :
        LET cl == calls[c] IN
        cl.kind = "check" =>
            /\ cl.pc # "raised"
            /\ ErrorCount(cl) <= 1
            /\ HasError(cl) => (cl.pc = "done" /\ Last(cl.log) = ErrorTurn("checkmessages"))
            /\ (cl.pc = "done" /\ NumIn(c) >= 1) => Last(cl.log).dir = "out"

\* C15: in CheckMessages a store failure at any store access (unread count,
\* sender aggregation, message fetch, batch mark-read) results in exactly one
\* 'Error: ' turn, which is the last turn of the call, in every stage; every
\* call that consumed a client turn and ended has a server turn as its last.
C15_FaultGivesOneErrorTurn == []C15_Ended /\ [][C15_Step]_vars

\* the UPDATE of the second batch failed: the call ended with the error turn
\* and the sixth row was left unread
C15_Witness ==
    /\ calls[1].kind = "check"
    /\ calls[1].pc = "done"
    /\ Len(calls[1].msgs) = batch_size + 1
    /\ Delivered(1) = batch_size + 1
    /\ Last(calls[1].log) = ErrorTurn("checkmessages")
    /\ ~IsRead(calls[1].msgs[batch_size + 1].messageid)


\* C16: a store failure at any store access of Register, Login, SendMessage,
\* Logoff or SearchUsers, the look-ups before the write included, is caught
\* and answered by a normal response; no handler ends by an uncaught exception.
C16_UnaryFaultsCaught == resp # Uncaught(resp.op, resp.req)


\* the step is the batch mark-read step of CheckMessages call c
MarksBatch(c) ==
    /\ calls[c].kind = "check"
    /\ calls[c].pc = "reading"
    /\ calls'[c].log = Append(calls[c].log, BatchMarked)

C17_Step ==
    /\ \A m \in messages : \A n \in messages' :
           (n.messageid = m.messageid /\ n.isread # m.isread) =>
               /\ m.isread = 0
               /\ n.isread = 1
               /\ \E c \in Calls :
                      /\ MarksBatch(c)
                      /\ \E i \in (calls[c].marked + 1)..calls'[c].marked :
                             calls[c].msgs[i].messageid = m.messageid
    /\ \A n \in Inserted : n.isread = 0

\* C17: the read flag of a message changes only in the batch mark-read step of
\* CheckMessages and only from unread to read; Register, Login, Logoff,
\* SendMessage, SearchUsers, DeleteLastMessage and DeactivateAccount change no
\* read flag; messages are created unread; no step turns a read message unread.
C17_ReadFlagOnlyByBatchMark == [][C17_Step]_vars

\* a batch was marked read, a message was sent and the account operations ran
C17_Witness ==
    /\ calls[1].kind = "check"
    /\ calls[1].marked >= 1
    /\ IsRead(calls[1].msgs[1].messageid)
    /\ used.ops = MaxOps
    /\ resp.op \in {"Register", "Login", "Logoff", "SearchUsers"}


\* the step consumes a client turn of CheckMessages call c
ConsumesTurn(c) == calls[c].kind = "check" /\ Len(InOf(calls'[c])) = NumIn(c) + 1

TurnOf(c) == Last(InOf(calls'[c])).req

\* the turn is answered by `turn` and the call stays where it is
RePrompt(c, turn) ==
    /\ calls'[c] = Push(calls[c], <<In(TurnOf(c)), turn>>)
    /\ calls'[c].pc = calls[c].pc
    /\ messages' = messages
    /\ users' = users

C18_Step ==
    \A c \in Calls :
        ConsumesTurn(c) =>
            /\ (calls[c].pc = "stage1" /\ Strip(TurnOf(c).choice) \notin {one, two})
                   => RePrompt(c, InvalidChoice)
            /\ (calls[c].pc = "stage2" /\ Strip(TurnOf(c).sender) = Empty)
                   => RePrompt(c, ValidSender)

\* C18: in CheckMessages an invalid input re-prompts within the same stage and
\* does not end the conversation: a choice other than '1' or '2' emits
\* 'Invalid choice...' and stays in await-choice, an empty sender emits 'Please
\* provide a valid sender name.' and stays in await-sender; the store is
\* unchanged and the next turn is processed in the same stage, for any number
\* of consecutive invalid turns.
C18_InvalidInputRePrompts == [][C18_Step]_vars

\* two invalid choices in a row were re-prompted and the third turn, '1', was
\* processed in the await-choice stage
C18_Witness ==
    /\ calls[1].kind = "check"
    /\ calls[1].pc = "stage2"
    /\ Len(calls[1].log) = 8
    /\ calls[1].log[4] = InvalidChoice
    /\ calls[1].log[6] = InvalidChoice
    /\ calls[1].log[8].info # {}

C19_Step ==
    \A c \in Calls :
        (ConsumesTurn(c) /\ calls[c].pc = "stage1" /\ Strip(TurnOf(c).choice) = two) =>
            /\ calls'[c] = [Push(calls[c], <<In(TurnOf(c)), Skipping>>) EXCEPT !.pc = "done"]
            /\ messages' = messages
            /\ users' = users

\* a call that ended consumes no further client turn and emits nothing more
C19_Ended == \A c \in Calls : calls[c].pc = "done" => calls'[c] = calls[c]

\* C19: in the await-choice stage, choice '2' emits 'Skipping reading
\* messages.' and ends the call with no message marked read and the store
\* unchanged; no further client turn is consumed.
C19_SkipEndsCall == [][C19_Step /\ C19_Ended]_vars

\* the call was skipped and a message was sent afterwards: the call stayed as it was
C19_Witness ==
    /\ calls[1].pc = "done"
    /\ calls[1].log # <<>>
    /\ Last(calls[1].log) = Skipping
    /\ used.sent
    /\ \E m \in messages : m.receiver = calls[1].username /\ m.isread = 0


\* the senders that have an unread message for u, each with its number of them
UnreadSenders(u) == {m.sender : m \in {r \in messages : r.receiver = u /\ r.isread = 0}}
SendersWithCounts(u) ==
    {<<s, Cardinality(UnreadFromTo(messages, u, s))>> : s \in UnreadSenders(u)}

C20_Step ==
    \A c \in Calls :
        (ConsumesTurn(c) /\ calls[c].pc = "stage1" /\ Strip(TurnOf(c).choice) = one) =>
            LET u == calls[c].username IN
            /\ messages' = messages
            /\ IF UnreadSenders(u) = {}
               THEN calls'[c] =
                        [Push(calls[c], <<In(TurnOf(c)), NoUnreadFound>>) EXCEPT !.pc = "done"]
               ELSE calls'[c] =
                        [Push(calls[c], <<In(TurnOf(c)), UnreadFrom(SendersWithCounts(u))>>)
                             EXCEPT !.pc = "stage2"]

\* C20: in the await-choice stage, choice '1' lists exactly the senders that
\* have an unread message for the user at that moment, each with its unread
\* count, and moves to await-sender; if there is none at that moment (a
\* concurrent call read or deleted them after the count was taken) it emits
\* 'No unread messages found.' and ends.
C20_ListsUnreadSenders == [][C20_Step]_vars

\* call 2 was told of unread messages, call 1 read them all, and call 2's
\* choice '1' found none
C20_Witness ==
    /\ calls[2].kind = "check"
    /\ calls[2].pc = "done"
    /\ Len(calls[2].log) = 4
    /\ calls[2].log[2].n >= 1
    /\ calls[2].log[4] = NoUnreadFound
    /\ calls[1].kind = "check"
    /\ calls[1].username = calls[2].username


C21_Step ==
    \A c \in Calls :
        LET X == Strip(TurnOf(c).sender) IN
        (/\ ConsumesTurn(c)
         /\ calls[c].pc = "stage2"
         /\ X # Empty
         /\ \A m \in messages : ~(m.receiver = calls[c].username /\ m.sender = X /\ m.isread = 0)) =>
            /\ calls'[c] =
                   [Push(calls[c], <<In(TurnOf(c)), NoUnreadFrom(X)>>) EXCEPT !.pc = "done"]
            /\ Deliveries(c) = <<>>
            /\ \A p \in 1..Len(calls'[c].log) : calls'[c].log[p] # BatchMarked
            /\ messages' = messages
            /\ users' = users

\* a call that ended with 'No unread messages from X.' stays as it is
C21_Ended ==
    \A c \in Calls :
        (calls[c].kind = "check" /\ calls[c].pc = "done"
            /\ Last(calls[c].log).server_message = NoUnreadFrom(Empty).server_message)
                => calls'[c] = calls[c]

\* C21: in the await-sender stage a non-empty sender name for which the user
\* has no unread message (unknown sender, or messages read or deleted already)
\* emits 'No unread messages from X.' and ends the call, with no delivery
\* turn, no 'batch marked' turn and no store change.
C21_NoUnreadFromSender == [][C21_Step /\ C21_Ended]_vars

\* call 2 was offered sender b, call 1 read b's messages, and call 2's choice
\* of b found none
C21_Witness ==
    /\ calls[2].kind = "check"
    /\ calls[2].pc = "done"
    /\ Len(calls[2].log) = 6
    /\ <<b, 1>> \in calls[2].log[4].info
    /\ calls[2].log[6] = NoUnreadFrom(b)
    /\ \E m \in messages : m.receiver = calls[2].username /\ m.sender = b /\ m.isread = 1


\* the DeactivateAccount call c has run its first DELETE for user u
InTransaction(c) ==
    /\ calls[c].kind = "deactivate"
    /\ NumIn(c) = 1
    /\ Lower(Strip(Last(InOf(calls[c])).req.confirmation)) = yes

\* the ids of the rows the transaction of call c deleted
TxIds(c) == {calls[c].msgs[i].messageid : i \in 1..Len(calls[c].msgs)}

StoredIds == {m.messageid : m \in messages}
Usernames == {row.username : row \in users}

\* what every other operation can see: never the messages gone and the user
\* row there, never the user row gone and the messages there
C22_Visible ==
    \A c \in Calls :
        InTransaction(c) =>
            /\ (\E id \in TxIds(c) : id \notin StoredIds) => calls[c].username \notin Usernames
            /\ calls[c].username \notin Usernames => \A id \in TxIds(c) : id \notin StoredIds

\* the steps of the transaction: only the commit changes the store, and a
\* failure in the middle changes nothing
C22_Step ==
    \A c \in Calls :
        (calls[c].kind = "deactivate" /\ calls'[c] # calls[c]) =>
            \/ /\ messages' = messages
               /\ users' = users
               /\ Last(calls'[c].log) # Removed
            \/ /\ Last(calls'[c].log) = Removed
               /\ \A id \in TxIds(c) : \A m \in messages' : m.messageid # id
               /\ \A row \in users' : row.username # calls[c].username

\* C22: the deletion of the user's sent messages and of the user row by
\* DeactivateAccount is one atomic step: no concurrent operation sees the
\* messages of sender u deleted while the user row of u exists, or the
\* reverse, and a failure in the middle leaves both in place.
C22_DeactivateAtomic == []C22_Visible /\ [][C22_Step]_vars

\* the transaction of call 1 failed after its first DELETE: the messages a had
\* sent and the user row of a are still there
C22_Witness ==
    /\ InTransaction(1)
    /\ calls[1].pc = "done"
    /\ Last(calls[1].log) = ErrorTurn("deactivate")
    /\ calls[1].username = a
    /\ TxIds(1) # {}
    /\ TxIds(1) \subseteq StoredIds
    /\ a \in Usernames


C23_Step ==
    \A c \in Calls :
        (/\ ConfirmStep(c)
         /\ calls[c].kind = "deactivate"
         /\ Lower(Strip(ConfirmReq(c).confirmation)) = yes) =>
            LET u == Strip(ConfirmReq(c).username) IN
            /\ messages' \subseteq messages
            /\ \A m \in messages : m.sender # u => m \in messages'
            /\ users' \subseteq users
            /\ \A row \in users : row.username # u => row \in users'
            /\ nextId' = nextId

\* C23: DeactivateAccount with 'yes' for user u deletes only the messages
\* whose sender is u and the user row of u: every message of another sender,
\* the messages received by u included, and every other user row are unchanged.
C23_DeactivateFrame == [][C23_Step]_vars

\* a's account was removed: the messages a had received and the row of b remain
C23_Witness ==
    /\ calls[1].kind = "deactivate"
    /\ calls[1].pc = "done"
    /\ Last(calls[1].log) = Removed
    /\ calls[1].username = a
    /\ \E m \in messages : m.receiver = a
    /\ Cardinality(messages) < nextId - 1
    /\ b \in Usernames
    /\ a \notin Usernames


\* the step is the SendMessage call
SendStep == ~used.sent /\ used'.sent

\* the text is '@<username> <body>': where its first blank is, 0 when the text
\* does not start with '@' or has no blank
FirstBlank(text) ==
    IF text # <<>> /\ text[1] = "@" /\ \E i \in 1..Len(text) : text[i] = " "
    THEN CHOOSE i \in 1..Len(text) : text[i] = " " /\ \A j \in 1..(i - 1) : text[j] # " "
    ELSE 0

C24_Step ==
    SendStep =>
        LET text == Strip(resp'.req.message)
            i == FirstBlank(text)
            name == SubSeq(text, 2, i - 1)
            body == SubSeq(text, i + 1, Len(text))
            session == IF resp'.req.md = {} THEN unknown ELSE CHOOSE u \in resp'.req.md : TRUE
        IN
        /\ resp'.op = "SendMessage"
        /\ users' = users
        /\ IF i > 0 /\ name \in Usernames
           THEN /\ resp'.success
                /\ Cardinality(messages') = Cardinality(messages) + 1
                /\ \E m \in messages' :
                      /\ messages' = messages \cup {m}
                      /\ m \notin messages
                      /\ m.isread = 0
                      /\ m.sender = session
                      /\ m.receiver = name
                      /\ m.message = body
                      /\ \A o \in messages : o.messageid < m.messageid
           ELSE /\ ~resp'.success
                /\ messages' = messages
                /\ nextId' = nextId

\* C24: SendMessage inserts exactly one message, unread, with the session
\* username as sender, the name after '@' as receiver and the text after the
\* first blank as body, when the text is '@<username> <body>' and the
\* recipient exists; in every other case (no leading '@', no body, unknown
\* recipient) it returns success = false and leaves the store unchanged.
C24_SendInsertsOne == [][C24_Step]_vars

\* a's message to b was stored
C24_Witness ==
    /\ resp.op = "SendMessage"
    /\ resp.success
    /\ resp.req.md = {a}
    /\ MsgRow(nextId - 1, b, a, hi, 0) \in messages


\* the step is the unary call `op`
UnaryStep(op) == used'.ops = used.ops + 1 /\ resp'.op = op

C25_Step ==
    UnaryStep("Register") =>
        LET u == Strip(resp'.req.username)
            p == Strip(resp'.req.password)
            cp == Strip(resp'.req.confirm_password)
            filled == u # Empty /\ p # Empty /\ cp # Empty
            free == u \notin Usernames
            policy == checkValidPassword(p)
            same == cp = p
        IN
        /\ messages' = messages
        /\ IF filled /\ free /\ policy /\ same
           THEN /\ resp'.server_message = "Registration successful. You are now logged in!"
                /\ \E row \in users' :
                      /\ users' = users \cup {row}
                      /\ row.username = u
                      /\ row.active = 1
                      /\ checkpw(p, row.password)
           ELSE /\ users' = users
                /\ resp'.server_message =
                      IF ~filled THEN "Registration canceled: All fields are required."
                      ELSE IF ~free THEN "Username taken. Please choose another."
                      ELSE IF ~policy
                      THEN "Invalid password: Must be >=7 chars, include uppercase, digit, and special char."
                      ELSE "Passwords do not match."

\* C25: Register adds a user row, active, if and only if the three fields are
\* non-empty, the username does not exist yet, the password satisfies the
\* policy and the confirmation equals the password; a rejected call leaves the
\* user store unchanged and answers with the message of the first failing
\* check in the order empty field, username taken, policy, mismatch.
C25_RegisterIff == [][C25_Step]_vars

\* c was registered, and a second registration of c was refused
C25_Witness ==
    /\ resp.op = "Register"
    /\ resp.server_message = "Username taken. Please choose another."
    /\ resp.req.username = c3
    /\ UserRow(c3, hashPass(Pw), 1) \in users


Successful(c) ==
    /\ calls[c].kind = "register"
    /\ calls[c].pc = "done"
    /\ Last(calls[c].log) = Say("1", "Registration successful. You are now logged in!")

C26_Unique ==
    /\ \A r1 \in users : \A r2 \in users : r1.username = r2.username => r1 = r2
    /\ \A c \in Calls : \A d \in Calls :
           (Successful(c) /\ Successful(d) /\ calls[c].username = calls[d].username) => c = d

\* a Register call that starts when the username exists is refused by the
\* existence check
C26_Sequential ==
    \A c \in Calls :
        (calls[c].pc = "idle" /\ calls'[c].kind = "register"
            /\ calls'[c].username \in Usernames /\ calls'[c].username # Empty)
                => (/\ calls'[c].pc = "done"
                    /\ Last(calls'[c].log) = Say("1", "Username taken. Please choose another."))

\* C26: usernames are unique: under any interleaving of concurrent Register
\* calls for one username at most one call returns 'Registration successful',
\* the store never holds two user rows of that username, and a second
\* sequential Register of an existing username returns 'Username taken'.
C26_UsernamesUnique == []C26_Unique /\ [][C26_Sequential]_vars

\* both calls passed the existence check for c; the first INSERT succeeded and
\* the second was refused by the store
C26_Witness ==
    /\ Successful(1)
    /\ calls[2].kind = "register"
    /\ calls[2].pc = "done"
    /\ calls[1].username = c3
    /\ calls[2].username = c3
    /\ Last(calls[2].log) = Say("1", "Server error during registration.")
    /\ Cardinality({row \in users : row.username = c3}) = 1


C27_Step ==
    UnaryStep("Login") =>
        LET u == Strip(resp'.req.username)
            p == Strip(resp'.req.password)
            verified == \E row \in users : row.username = u /\ row.password = hashPass(p)
        IN
        /\ messages' = messages
        /\ IF verified
           THEN /\ resp'.server_message = "Welcome, USERNAME!"
                /\ \A row \in users :
                       IF row.username = u THEN [row EXCEPT !.active = 1] \in users'
                       ELSE row \in users'
                /\ \A row \in users' : row.username = u => row.active = 1
                /\ Cardinality(users') = Cardinality(users)
           ELSE /\ users' = users
                /\ resp'.server_message =
                       IF u \in Usernames THEN "Incorrect password." ELSE "User not found."

\* C27: Login sets the user's active flag and answers with a 'Welcome' message
\* if and only if the username exists and the password verifies against the
\* stored digest; a failed Login leaves the user and message stores unchanged.
C27_LoginIff == [][C27_Step]_vars

\* a, logged off before, logged in again
C27_Witness ==
    /\ resp.op = "Login"
    /\ resp.server_message = "Welcome, USERNAME!"
    /\ resp.req.username = a
    /\ used.ops = 2
    /\ UserRow(a, hashPass(Pw), 1) \in users
    /\ calls[1].pc = "idle"

C28_Step ==
    UnaryStep("Logoff") =>
        LET u == Strip(resp'.req.username) IN
        /\ messages' = messages
        /\ Cardinality(users') = Cardinality(users)
        /\ \A row \in users :
               IF row.username = u THEN [row EXCEPT !.active = 0] \in users'
               ELSE row \in users'
        /\ (\A row \in users : row.username = u => row.active = 0) => users' = users
        /\ (resp.op = "Logoff" /\ Strip(resp.req.username) = u) => users' = users

\* C28: Logoff(u) sets active = false for user u and is idempotent: the store
\* after two consecutive Logoff(u) calls equals the store after one; Logoff
\* changes nothing but the active flag of u (no message, no other user, no
\* row created when u does not exist).
C28_LogoffIdempotent == [][C28_Step]_vars

\* a was logged off twice
C28_Witness ==
    /\ resp.op = "Logoff"
    /\ resp.req.username = a
    /\ used.ops = 2
    /\ users = {UserRow(a, hashPass(Pw), 0), UserRow(b, hashPass(Pw), 1)}
    /\ calls[1].pc = "idle"

C29_Step ==
    UnaryStep("SearchUsers") =>
        /\ resp'.success
        /\ resp'.usernames = Usernames \ {Strip(resp'.req.username)}
        /\ users' = users
        /\ messages' = messages

\* C29: SearchUsers(caller) returns success = true and exactly the usernames
\* in the user store minus the caller's own name, whatever the users' active
\* flags, and does not change the store.
C29_SearchAllButCaller == [][C29_Step]_vars

\* a has logged off and is listed to b
C29_Witness ==
    /\ resp.op = "SearchUsers"
    /\ resp.req.username = b
    /\ resp.usernames = {a}
    /\ UserRow(a, hashPass(Pw), 0) \in users


\* C30: checkValidPassword accepts a password if and only if it has at least 7
\* characters and contains at least one uppercase letter, at least one digit
\* and at least one of the special characters _ @ $ # ! ; 'abc' and 'abcdefg'
\* are rejected and 'Abcdef1!' is accepted.
C30_PolicyIff ==
    resp.op = "checkValidPassword" =>
        LET p == resp.req IN
        /\ resp.success <=>
               /\ Len(p) >= 7
               /\ \E i \in 1..Len(p) : p[i] \in Uppercase
               /\ \E i \in 1..Len(p) : p[i] \in Digits
               /\ \E i \in 1..Len(p) : p[i] \in {"_", "@", "$", "#", "!"}
        /\ p \in {abc, abcdefg} => ~resp.success
        /\ p = Abcdef1Bang => resp.success

\* a password of exactly 7 characters with the three classes was accepted
C30_Witness ==
    /\ resp.op = "checkValidPassword"
    /\ resp.req = <<"b", "b", "A", "b", "1", "b", "#">>
    /\ resp.success


\* the sender the CheckMessages call c was asked to read (its last client turn)
ChosenSender(cl) == Strip(Last(InOf(cl)).req.sender)

\* the rows the call fetched: unread ones of its user from the chosen sender
SnapshotIds(cl) == {cl.msgs[i].messageid : i \in 1..Len(cl.msgs)}

C31_Fetched ==
    \A c \in Calls :
        LET cl == calls[c] IN
        (cl.kind = "check" /\ cl.msgs # <<>>) =>
            /\ \A i \in 1..Len(cl.msgs) :
                  /\ cl.msgs[i].receiver = cl.username
                  /\ cl.msgs[i].sender = ChosenSender(cl)
                  /\ cl.msgs[i].isread = 0
            /\ \A i \in 1..Len(Deliveries(c)) : Deliveries(c)[i].id \in SnapshotIds(cl)

C31_Step ==
    \A c \in Calls :
        MarksBatch(c) =>
            \A m \in messages :
                IF m \in messages'
                THEN TRUE
                ELSE /\ m.messageid \in SnapshotIds(calls[c])
                     /\ m.receiver = calls[c].username
                     /\ m.sender = ChosenSender(calls[c])
                     /\ m.isread = 0
                     /\ [m EXCEPT !.isread = 1] \in messages'

\* C31: a CheckMessages call of user r that reads sender s delivers and marks
\* read only messages with receiver r and sender s that were unread when the
\* call fetched them; messages of other senders, to other receivers, and
\* messages from s inserted after the fetch are left as they are by that call.
C31_MarksOnlyFetched == []C31_Fetched /\ [][C31_Step]_vars

\* a call read b's messages to the end while a later message from b to the
\* same user, inserted after the fetch, is still unread
C31_Witness ==
    \E c \in Calls :
        LET cl == calls[c] IN
        /\ cl.kind = "check"
        /\ cl.pc = "done"
        /\ cl.msgs # <<>>
        /\ Last(cl.log) = DoneReading
        /\ \E m \in messages :
              /\ m.receiver = cl.username
              /\ m.sender = ChosenSender(cl)
              /\ m.isread = 0
              /\ \A i \in SnapshotIds(cl) : m.messageid > i


\* the turns after which CheckMessages leaves its loop
TerminalTexts ==
    {ZeroUnread.server_message, Skipping.server_message, NoUnreadFound.server_message,
     NoUnreadFrom(Empty).server_message, DoneReading.server_message,
     ErrorTurn("checkmessages").server_message}

HasTerminal(cl) ==
    \E p \in 1..Len(cl.log) : IsOut(cl.log[p]) /\ cl.log[p].server_message \in TerminalTexts

C32_Step ==
    \A c \in Calls :
        (calls[c].kind = "check" /\ HasTerminal(calls[c])) =>
            /\ calls'[c].log = calls[c].log
            /\ Ended(c) /\ Ended(c)'

\* C32: a CheckMessages call eventually terminates, provided the client
\* eventually sends a valid choice and a non-empty sender or closes its
\* request stream; after a terminal turn the call emits no further turn and
\* consumes no further client turn.
C32_Terminates ==
    /\ (calls[1].kind = "check") ~> Ended(1)
    /\ [][C32_Step]_vars

\* the call went through an invalid choice and ended with the final turn of
\* a read
C32_Witness ==
    /\ calls[1].kind = "check"
    /\ calls[1].pc = "done"
    /\ calls[1].msgs # <<>>
    /\ Last(calls[1].log) = DoneReading
    /\ \E p \in 1..Len(calls[1].log) : calls[1].log[p] = InvalidChoice


\* the DeactivateAccount call c removed the account of its user
Deactivated(c) ==
    /\ calls[c].kind = "deactivate"
    /\ calls[c].pc = "done"
    /\ calls[c].log # <<>>
    /\ Last(calls[c].log) = Removed

\* C33: once user u has been deactivated, and as long as u is not registered
\* again, the store holds no message with sender u, whatever operations
\* follow, SendMessage calls with the session username u included.
C33_NoMessageFromDeactivated ==
    \A c \in Calls :
        (Deactivated(c) /\ ~checkRealUsername(users, calls[c].username)) =>
            \A m \in messages : m.sender # calls[c].username


C34_Step ==
    (/\ UnaryStep("Register")
     /\ resp'.server_message = "Registration successful. You are now logged in!") =>
        UnreadCount(messages', Strip(resp'.req.username)) = 0

\* C34: immediately after a successful Register(u), user u has zero unread
\* messages, whatever happened before, an earlier account of the same
\* username that received messages and was deactivated included.
C34_NewUserHasNoUnread == [][C34_Step]_vars


\* the username of the first client turn of a call, stripped
FirstUsername(cl) == Strip(InOf(cl)[1].req.username)

C35_Bound ==
    \A c \in Calls :
        LET cl == calls[c] IN
        (cl.kind = "check" /\ InOf(cl) # <<>>) =>
            /\ cl.username = FirstUsername(cl)
            /\ \A i \in 1..Len(cl.msgs) : cl.msgs[i].receiver = FirstUsername(cl)

C35_Step ==
    \A c \in Calls :
        (ConsumesTurn(c) /\ calls[c].pc \in {"stage1", "stage2"}) =>
            LET first == FirstUsername(calls[c])
                new == Last(calls'[c].log)
            IN
            /\ FirstUsername(calls'[c]) = first
            /\ (calls[c].pc = "stage1" /\ Strip(TurnOf(c).choice) = one) =>
                   IF SendersInfo(messages, first) = {}
                   THEN new = NoUnreadFound
                   ELSE new = UnreadFrom(SendersInfo(messages, first))
            /\ (calls[c].pc = "stage2" /\ Strip(TurnOf(c).sender) # Empty) =>
                   LET msgs == FetchUnread(messages, first, Strip(TurnOf(c).sender)) IN
                   IF msgs = <<>>
                   THEN new = NoUnreadFrom(Strip(TurnOf(c).sender))
                   ELSE calls'[c].msgs = msgs /\ new = Delivery(msgs[1])

C35_Marks ==
    \A c \in Calls :
        MarksBatch(c) =>
            \A m \in messages : m \notin messages' => m.receiver = FirstUsername(calls[c])

\* C35: in CheckMessages the user is bound by the first client turn and fixed
\* for the rest of the call: the sender listing, the fetch and the messages
\* marked read all use the first turn's username, whatever username the later
\* turns carry.
C35_UserBoundByFirstTurn == []C35_Bound /\ [][C35_Step /\ C35_Marks]_vars

\* a call of a, whose later turns carried the username b, read a's messages
C35_Witness ==
    /\ calls[1].kind = "check"
    /\ calls[1].pc = "done"
    /\ calls[1].msgs # <<>>
    /\ Last(calls[1].log) = DoneReading
    /\ FirstUsername(calls[1]) = a
    /\ Last(InOf(calls[1])).req.username = b
    /\ \E m \in messages : m.receiver = a /\ m.isread = 1


\* the sender names the call has listed in its 'Unread from:' turn
Listed(c) == UNION {{p[1] : p \in Out(c)[i].info} : i \in 1..Len(Out(c))}

\* the 'Unread from:' turn was among the first n server turns
ListShown(c, n) ==
    \E i \in 1..Len(Out(c)) :
        i <= n /\ Out(c)[i].server_message = UnreadFrom({}).server_message

\* the server reads, in the await-sender stage, the request made of a line the
\* user typed with the list on screen: request k+1 is made of typed line k
C36_Step ==
    (ConsumesTurn(1) /\ calls[1].pc = "stage2") =>
        LET k == NumIn(1)
            name == Strip(gui.typed[k].line)
        IN (ListShown(1, gui.typed[k].seen) /\ name \in Listed(1)) =>
               /\ calls'[1].pc = "reading"
               /\ Last(calls'[1].log).server_message = Delivery(NoRow).server_message
               /\ Last(calls'[1].log).sender = name
               /\ calls'[1].msgs = FetchUnread(messages, gui.username, name)

\* C36: in a client-driven CheckMessages session, typing a sender name listed
\* in the 'Unread from:' turn makes the server deliver that sender's unread
\* messages, for every username, '1' and '2' included.
C36_ListedSenderIsDelivered == [][C36_Step]_vars

====
